---------------------------- MODULE Spec2Model ----------------------------
(***************************************************************************)
(* Model of the metadata inference and Veregin scoring engine of the       *)
(* repository (the streamlit scripts under src/).                          *)
(*                                                                         *)
(* Python values are records of one shape, [kind, s, items, n]:            *)
(*   kind = "none"   None                                                  *)
(*   kind = "str"    a string, s = its characters                          *)
(*   kind = "list"   a list, items = its elements                          *)
(*   kind = "dict"   a mapping, items = its entries (kind "entry",         *)
(*                   s = the key, items = <<the value>>)                   *)
(*   kind = "int"    an integer n                                          *)
(*   kind = "float"  a float, n = its value in thousandths                 *)
(* Strings are sequences of one-character strings, so that strip, upper,   *)
(* replace and the substring test are computed character by character.     *)
(***************************************************************************)
EXTENDS Integers, Sequences, FiniteSets, TLC

VARIABLES
    pc,             \* position of the run
    engine,         \* which script's function the run calls
    inferred_val,   \* argument: the inferred value
    reference_val,  \* argument: the reference value
    related,        \* argument: the related value (ISO.py evaluate_field)
    inf_norm,       \* local of test.py calculate_veregin_score
    ref_norm,       \* local of test.py calculate_veregin_score
    ret,            \* the value the call returned
    scores,         \* the scores dict test.py calculate_veregin_score last built
    ncalls,         \* number of scoring calls made so far
    probe,          \* the first scoring call: its arguments and its result
    df,             \* the loaded dataset
    method,         \* the inference method selected in the sidebar
    metadata,       \* the MetadataRecord of the run
    reference_data, \* the reference record of the run
    eval_report,    \* the per-field score dicts of the run
    content,        \* the text of the uploaded MIF reference file
    mid_text,       \* the text of the uploaded MID reference file
    file_content,   \* the bytes of the uploaded MIF reference file
    uploaded_files, \* the files of a batch upload, in upload order
    file_index,     \* the position of the batch loop in uploaded_files
    summary_data,   \* the rows the batch loop has appended
    shown           \* what the page of a pipeline run has displayed: the metadata, the
                    \* evaluation, messages, the download button

callVars == <<engine, inferred_val, reference_val, related>>
pipeVars == <<df, method, metadata, reference_data, eval_report, content, mid_text>>
uploadVars == <<file_content, uploaded_files, file_index, summary_data>>
pageVars == <<uploadVars, shown>>

vars == <<pc, engine, inferred_val, reference_val, related, inf_norm, ref_norm,
          ret, scores, ncalls, probe, df, method, metadata, reference_data,
          eval_report, content, mid_text, file_content, uploaded_files, file_index,
          summary_data, shown>>

-----------------------------------------------------------------------------
(* Characters and string literals of the source *)

LowerCase == <<"a", "b", "c", "d", "e", "f", "g", "h", "i", "j", "k", "l", "m",
               "n", "o", "p", "q", "r", "s", "t", "u", "v", "w", "x", "y", "z">>

UpperCase == <<"A", "B", "C", "D", "E", "F", "G", "H", "I", "J", "K", "L", "M",
               "N", "O", "P", "Q", "R", "S", "T", "U", "V", "W", "X", "Y", "Z">>

Digits == <<"0", "1", "2", "3", "4", "5", "6", "7", "8", "9">>

Whitespace == {" ", "\t", "\n", "\r"}

S_Empty == << >>
S_Unknown == <<"U", "n", "k", "n", "o", "w", "n">>
S_None == <<"N", "o", "n", "e">>
S_EmptyList == <<"[", "]">>
S_EmptyDict == <<"{", "}">>
S_MULTIPOLYGON == <<"M", "U", "L", "T", "I", "P", "O", "L", "Y", "G", "O", "N">>
S_POLYGON == <<"P", "O", "L", "Y", "G", "O", "N">>
S_POINT == <<"P", "O", "I", "N", "T">>
S_LINE == <<"L", "I", "N", "E">>
S_ESTIMATED == <<"(", "E", "S", "T", "I", "M", "A", "T", "E", "D", ")">>
S_PointEstimated == <<"P", "O", "I", "N", "T", " ", "(", "E", "s", "t", "i", "m", "a", "t", "e", "d", ")">>
S_MULTI == <<"M", "U", "L", "T", "I">>
S_GEOMETRY == <<"G", "E", "O", "M", "E", "T", "R", "Y">>
S_LINESTRING == <<"L", "I", "N", "E", "S", "T", "R", "I", "N", "G">>
S_point == <<"p", "o", "i", "n", "t">>
S_Polygon == <<"P", "o", "l", "y", "g", "o", "n">>
S_EstimatedSuffix == <<" ", "(", "E", "s", "t", "i", "m", "a", "t", "e", "d", ")">>
S_Space == <<" ">>
S_2D == <<"2", "D">>
S_VECTOR == <<"V", "E", "C", "T", "O", "R">>
S_UNKNOWN == <<"U", "N", "K", "N", "O", "W", "N">>
S_nan == <<"n", "a", "n">>
S_RuleBased == <<"R", "u", "l", "e", "-", "B", "a", "s", "e", "d">>
S_StatisticalProfiling == <<"S", "t", "a", "t", "i", "s", "t", "i", "c", "a", "l", " ",
    "P", "r", "o", "f", "i", "l", "i", "n", "g">>
S_HeuristicBased == <<"H", "e", "u", "r", "i", "s", "t", "i", "c", "-", "B", "a", "s", "e", "d">>
S_EPSG == <<"E", "P", "S", "G">>
S_4326 == <<"4", "3", "2", "6">>
S_WGS84 == <<"W", "G", "S", " ", "8", "4">>
S_DecimalDegrees == <<"D", "e", "c", "i", "m", "a", "l", " ", "D", "e", "g", "r", "e", "e", "s">>
S_UnknownProjected == <<"U", "n", "k", "n", "o", "w", "n", " ", "/", " ", "P", "r", "o",
    "j", "e", "c", "t", "e", "d">>
S_Undefined == <<"U", "n", "d", "e", "f", "i", "n", "e", "d">>
S_Geographic2D == <<"G", "e", "o", "g", "r", "a", "p", "h", "i", "c", " ", "2", "D">>
S_auth_name == <<"a", "u", "t", "h", "_", "n", "a", "m", "e">>
S_code == <<"c", "o", "d", "e">>
S_name == <<"n", "a", "m", "e">>
S_units == <<"u", "n", "i", "t", "s">>
S_int64 == <<"i", "n", "t", "6", "4">>
S_object == <<"o", "b", "j", "e", "c", "t">>
S_float64 == <<"f", "l", "o", "a", "t", "6", "4">>
S_WKT_LNG_LAT == <<"W", "K", "T", "_", "L", "N", "G", "_", "L", "A", "T">>
S_LAT == <<"L", "A", "T">>
S_LNG == <<"L", "N", "G">>
S_min_x == <<"m", "i", "n", "_", "x">>
S_max_x == <<"m", "a", "x", "_", "x">>
S_min_y == <<"m", "i", "n", "_", "y">>
S_max_y == <<"m", "a", "x", "_", "y">>
S_WktPoint == <<"P", "O", "I", "N", "T", " ", "(", "1", " ", "2", ")">>
S_WktPolygon == <<"P", "O", "L", "Y", "G", "O", "N", " ", "(", "(", "0", " ", "0", ")", ")">>
S_WktLower == <<"p", "o", "i", "n", "t", " ", "(", "1", " ", "2", ")">>

-----------------------------------------------------------------------------
(* Python values *)

PyNone == [kind |-> "none", s |-> << >>, items |-> << >>, n |-> 0]
PyStr(str) == [kind |-> "str", s |-> str, items |-> << >>, n |-> 0]
PyList(elems) == [kind |-> "list", s |-> << >>, items |-> elems, n |-> 0]
PyEntry(key, val) == [kind |-> "entry", s |-> key, items |-> <<val>>, n |-> 0]
PyDict(entries) == [kind |-> "dict", s |-> << >>, items |-> entries, n |-> 0]
PyInt(i) == [kind |-> "int", s |-> << >>, items |-> << >>, n |-> i]
PyFloat(thousandths) == [kind |-> "float", s |-> << >>, items |-> << >>, n |-> thousandths]
\* float("nan"), the missing value of pandas
NaN == [kind |-> "nan", s |-> << >>, items |-> << >>, n |-> 0]

IsNumber(v) == v.kind \in {"int", "float"}

\* the numeric value of an int or float, in thousandths
Thousandths(v) == IF v.kind = "int" THEN v.n * 1000 ELSE v.n

Abs(x) == IF x < 0 THEN -x ELSE x

-----------------------------------------------------------------------------
(* Python string operations *)

RECURSIVE Concat(_)
Concat(seqs) == IF seqs = << >> THEN << >> ELSE Head(seqs) \o Concat(Tail(seqs))

\* x in s, for strings
Contains(sub, str) ==
    \E i \in 0..(Len(str) - Len(sub)) : SubSeq(str, i + 1, i + Len(sub)) = sub

UpperChar(c) ==
    IF \E i \in 1..26 : LowerCase[i] = c
    THEN UpperCase[CHOOSE i \in 1..26 : LowerCase[i] = c]
    ELSE c

LowerChar(c) ==
    IF \E i \in 1..26 : UpperCase[i] = c
    THEN LowerCase[CHOOSE i \in 1..26 : UpperCase[i] = c]
    ELSE c

\* str.upper()
Upper(str) == [i \in 1..Len(str) |-> UpperChar(str[i])]

\* str.lower()
Lower(str) == [i \in 1..Len(str) |-> LowerChar(str[i])]

RECURSIVE LStrip(_)
LStrip(str) ==
    IF str # << >> /\ Head(str) \in Whitespace THEN LStrip(Tail(str)) ELSE str

RECURSIVE RStrip(_)
RStrip(str) ==
    IF str # << >> /\ str[Len(str)] \in Whitespace
    THEN RStrip(SubSeq(str, 1, Len(str) - 1))
    ELSE str

\* str.strip()
Strip(str) == RStrip(LStrip(str))

\* str.replace(old, new) for a non-empty old: left to right, non-overlapping
RECURSIVE Replace(_, _, _)
Replace(str, old, new) ==
    IF Len(str) < Len(old) THEN str
    ELSE IF SubSeq(str, 1, Len(old)) = old
         THEN new \o Replace(SubSeq(str, Len(old) + 1, Len(str)), old, new)
         ELSE <<Head(str)>> \o Replace(Tail(str), old, new)

RECURSIVE NatStr(_)
NatStr(i) ==
    IF i < 10 THEN <<Digits[i + 1]>> ELSE NatStr(i \div 10) \o <<Digits[(i % 10) + 1]>>

\* str(int)
IntStr(i) == IF i < 0 THEN <<"-">> \o NatStr(-i) ELSE NatStr(i)

\* the fraction digits of a float given in thousandths: trailing zeros
\* dropped, at least one digit kept (repr(100.0) = "100.0")
FracStr(f) ==
    IF f % 100 = 0 THEN <<Digits[(f \div 100) + 1]>>
    ELSE IF f % 10 = 0 THEN <<Digits[(f \div 100) + 1], Digits[((f \div 10) % 10) + 1]>>
    ELSE <<Digits[(f \div 100) + 1], Digits[((f \div 10) % 10) + 1], Digits[(f % 10) + 1]>>

\* str(float)
FloatStr(m) ==
    (IF m < 0 THEN <<"-">> ELSE << >>)
        \o NatStr(Abs(m) \div 1000) \o <<".">> \o FracStr(Abs(m) % 1000)

\* repr of one character inside a quoted string
ReprChar(c) ==
    CASE c = "\n" -> <<"\\", "n">>
      [] c = "\t" -> <<"\\", "t">>
      [] c = "\r" -> <<"\\", "r">>
      [] c = "\\" -> <<"\\", "\\">>
      [] OTHER -> <<c>>

ReprStr(str) == <<"'">> \o Concat([i \in 1..Len(str) |-> ReprChar(str[i])]) \o <<"'">>

RECURSIVE JoinComma(_)
JoinComma(parts) ==
    IF parts = << >> THEN << >>
    ELSE IF Len(parts) = 1 THEN parts[1]
    ELSE parts[1] \o <<",", " ">> \o JoinComma(Tail(parts))

\* repr(v)
RECURSIVE Repr(_)
Repr(v) ==
    CASE v.kind = "none" -> S_None
      [] v.kind = "str" -> ReprStr(v.s)
      [] v.kind = "int" -> IntStr(v.n)
      [] v.kind = "float" -> FloatStr(v.n)
      [] v.kind = "nan" -> S_nan
      [] v.kind = "list" ->
            <<"[">> \o JoinComma([i \in 1..Len(v.items) |-> Repr(v.items[i])]) \o <<"]">>
      [] v.kind = "entry" -> ReprStr(v.s) \o <<":", " ">> \o Repr(v.items[1])
      [] v.kind = "dict" ->
            <<"{">> \o JoinComma([i \in 1..Len(v.items) |-> Repr(v.items[i])]) \o <<"}">>

\* str(v)
Str(v) == IF v.kind = "str" THEN v.s ELSE Repr(v)

-----------------------------------------------------------------------------
(* The scoring engine of test.py: calculate_veregin_score *)

Criteria == {"Correctness", "Completeness", "Consistency", "Granularity"}

\* the scores dict left by the previous call instead of a new one
StaleScores ==
    IF DOMAIN scores = {} THEN [k \in Criteria |-> 0] ELSE [k \in Criteria |-> scores[k]]

\* scores = {"Correctness": 0, "Completeness": 0, "Consistency": 0, "Granularity": 0}
NewScores == [k \in Criteria |-> 0]

\* inferred_val is not None and str(inferred_val) not in ["Unknown", "[]", "None", ""]
IsComplete(v) ==
    v.kind # "none" /\ Str(v) \notin {S_Unknown, S_EmptyList, S_None, S_Empty}

\* normalize without the MULTIPOLYGON -> POLYGON fold
normalize_unfolded(v) ==
    LET w == IF v.kind = "list"
             THEN (IF Len(v.items) > 0 THEN v.items[1] ELSE PyStr(S_Empty))
             ELSE v
    IN  Upper(Strip(Str(w)))

\* the nested function normalize(v)
normalize(v) ==
    LET w == IF v.kind = "list"
             THEN (IF Len(v.items) > 0 THEN v.items[1] ELSE PyStr(S_Empty))
             ELSE v
    IN  Replace(Upper(Strip(Str(w))), S_MULTIPOLYGON, S_POLYGON)

\* the Correctness branch; a key no branch assigns keeps the value it had
CorrectnessOf(base, inorm, rnorm) ==
    IF inorm = rnorm /\ inorm # S_Empty THEN 2
    ELSE IF Contains(S_ESTIMATED, inorm) \/ Contains(rnorm, inorm) THEN 1
    ELSE base["Correctness"]

\* any(x in inf_norm for x in ['POINT', 'LINE', 'POLYGON'])
GranularityOf(inorm) ==
    IF \E x \in {S_POINT, S_LINE, S_POLYGON} : Contains(x, inorm) THEN 2 ELSE 1

\* the dict the call returns: the four criteria on the short-circuit, the
\* four criteria and "Total" otherwise
calculate_veregin_score(inferred, reference) ==
    LET base == NewScores IN
    IF ~IsComplete(inferred) THEN base
    ELSE LET inorm == normalize(inferred)
             rnorm == normalize(reference)
             four == [k \in Criteria |->
                        CASE k = "Completeness" -> 2
                          [] k = "Correctness" -> CorrectnessOf(base, inorm, rnorm)
                          [] k = "Consistency" -> 2
                          [] k = "Granularity" -> GranularityOf(inorm)]
         IN  [k \in Criteria \cup {"Total"} |->
                IF k = "Total"
                THEN four["Correctness"] + four["Completeness"]
                       + four["Consistency"] + four["Granularity"]
                ELSE four[k]]

-----------------------------------------------------------------------------
(* The scoring engine of comp.py: calculate_veregin_score(inferred, actual) *)
(* It returns the sum only; the record keeps its locals beside the sum.     *)

comp_calculate_veregin_score(inferred, actual) ==
    LET comp == IF inferred.kind # "none" THEN 2 ELSE 0
        \* abs(inferred - actual) raises TypeError unless actual is a number
        raises == IsNumber(inferred) /\ ~IsNumber(actual)
        diff == Abs(Thousandths(inferred) - Thousandths(actual))
        corr == IF IsNumber(inferred)
                THEN (IF raises THEN 0
                      ELSE IF diff < 10 THEN 2 ELSE IF diff < 500 THEN 1 ELSE 0)
                ELSE (IF Str(inferred) = Str(actual) THEN 2 ELSE 0)
        cons == IF comp = 2 /\ corr >= 1 THEN 2 ELSE 0
        gran == IF Len(Str(inferred)) >= Len(Str(actual)) THEN 2 ELSE 1
    IN  [raised |-> raises, comp |-> comp, corr |-> corr, cons |-> cons,
         gran |-> gran, total |-> comp + corr + cons + gran]

-----------------------------------------------------------------------------
(* The scoring engine of ISO.py: evaluate_field *)

\* Python ==
RECURSIVE PyEq(_, _)
PyEq(a, b) ==
    IF IsNumber(a) /\ IsNumber(b) THEN Thousandths(a) = Thousandths(b)
    ELSE IF a.kind # b.kind THEN FALSE
    ELSE CASE a.kind = "none" -> TRUE
           [] a.kind = "nan" -> FALSE
           [] a.kind = "str" -> a.s = b.s
           [] a.kind = "list" ->
                /\ Len(a.items) = Len(b.items)
                /\ \A i \in 1..Len(a.items) : PyEq(a.items[i], b.items[i])
           [] a.kind = "entry" -> a.s = b.s /\ PyEq(a.items[1], b.items[1])
           [] a.kind = "dict" ->
                /\ Len(a.items) = Len(b.items)
                /\ \A i \in 1..Len(a.items) :
                      \E j \in 1..Len(b.items) : PyEq(a.items[i], b.items[j])

\* x in lst, for a list
PyIn(x, lst) == \E i \in 1..Len(lst) : PyEq(x, lst[i])

score_correctness(inferred, reference) ==
    IF inferred.kind = "none" THEN 0
    ELSE IF PyEq(inferred, reference) THEN 2
    ELSE IF inferred.kind = "list" /\ PyIn(reference, inferred.items) THEN 2
    ELSE 1

score_completeness(inferred) ==
    IF ~PyIn(inferred, <<PyNone, PyStr(S_Empty), PyList(<< >>), PyDict(<< >>)>>)
    THEN 2 ELSE 0

score_consistency(inferred, rel) ==
    IF inferred.kind = "none" THEN 0
    ELSE IF rel.kind = "none" THEN 2
    ELSE IF ~PyEq(inferred, rel) THEN 2 ELSE 1

score_granularity(inferred, reference) ==
    IF inferred.kind = "none" THEN 0
    ELSE IF PyEq(inferred, reference) THEN 2
    ELSE 1

IsoKeys == {"correctness", "completeness", "consistency", "granularity"}

evaluate_field(inferred, reference, rel) ==
    LET four == [k \in IsoKeys |->
                   CASE k = "correctness" -> score_correctness(inferred, reference)
                     [] k = "completeness" -> score_completeness(inferred)
                     [] k = "consistency" -> score_consistency(inferred, rel)
                     [] k = "granularity" -> score_granularity(inferred, reference)]
    IN  [k \in IsoKeys \cup {"total"} |->
           IF k = "total"
           THEN four["correctness"] + four["completeness"]
                  + four["consistency"] + four["granularity"]
           ELSE four[k]]

-----------------------------------------------------------------------------
(* Inputs of the scoring runs *)

MaxPieces == 2

\* the words the strings handed to the engine are made of
Pieces == {S_POINT, S_point, S_POLYGON, S_MULTI, S_GEOMETRY, S_Unknown, S_Space,
           S_EstimatedSuffix}

\* every concatenation of at most k words
RECURSIVE StringsUpTo(_, _)
StringsUpTo(words, k) ==
    IF k = 0 THEN {S_Empty}
    ELSE LET shorter == StringsUpTo(words, k - 1)
         IN  shorter \cup {w \o str : w \in words, str \in shorter}

IntSamples == {0, 1, 5, 10, 100}

\* floats, in thousandths: 100.0, 100.004, 100.009, 100.01, 100.3, 100.5, 101.0
FloatSamples == {100000, 100004, 100009, 100010, 100300, 100500, 101000}

NumberValues == {PyInt(i) : i \in IntSamples} \cup {PyFloat(m) : m \in FloatSamples}

ListValues ==
    {PyList(<< >>)}
        \cup {PyList(<<PyStr(w)>>) : w \in Pieces \cup {S_MULTIPOLYGON, S_Polygon}}
        \cup {PyList(<<PyStr(w), PyStr(x)>>) : w \in {S_POINT, S_POLYGON}, x \in {S_POINT, S_POLYGON}}

DictValues == {PyDict(<< >>), PyDict(<<PyEntry(<<"k">>, PyInt(1))>>)}

InferredValues ==
    {PyNone}
        \cup {PyStr(str) : str \in StringsUpTo(Pieces, MaxPieces)
                                     \cup {S_None, S_EmptyList, S_EmptyDict, S_VECTOR}}
        \cup ListValues \cup DictValues \cup NumberValues

\* what the reference parsers and the proxy ground truths hand over
ReferenceValues ==
    {PyNone}
        \cup {PyStr(str) : str \in {S_Empty, S_Unknown, S_POINT, S_POLYGON, S_MULTIPOLYGON,
                                    S_LINESTRING, S_GEOMETRY, S_PointEstimated, S_MULTI}}
        \cup {PyList(<<PyStr(S_POLYGON)>>)}
        \cup NumberValues

\* the values the runs of comp.py and ISO.py are given
PlainValues ==
    {PyNone}
        \cup {PyStr(str) : str \in StringsUpTo(Pieces, 1) \cup {S_VECTOR, S_UNKNOWN}}
        \cup ListValues \cup DictValues \cup NumberValues

RelatedValues == {PyNone, PyStr(S_2D), PyStr(S_POINT)}

Engines == {"test", "comp", "iso"}

\* the value of a variable no statement has assigned yet
Unset == <<"<unset>">>

\* what a file_uploader returns when no file was uploaded
NoFile == <<"<none>">>
\* no dict built yet
NoDict == << >>
NoProbe == [set |-> FALSE]

\* the record of the first scoring call of a run
Recorded(result) ==
    IF probe.set THEN probe
    ELSE [set |-> TRUE, engine |-> engine, inferred |-> inferred_val,
          reference |-> reference_val, related |-> related, ret |-> result]

\* a run that uploads no reference bytes, no batch, and displays nothing yet
NoPage ==
    /\ file_content = Unset
    /\ uploaded_files = Unset
    /\ file_index = 0
    /\ summary_data = << >>
    /\ shown = {}

NoPipeline ==
    /\ df = Unset
    /\ method = Unset
    /\ metadata = Unset
    /\ reference_data = Unset
    /\ eval_report = Unset
    /\ content = Unset
    /\ mid_text = Unset

-----------------------------------------------------------------------------
(* One scoring call per run: the arguments are drawn at the start, the      *)
(* action of the engine the run uses applies the function.                  *)

Init ==
    /\ NoPage
    /\ pc = "call"
    /\ engine \in Engines
    /\ inferred_val \in (IF engine = "test" THEN InferredValues ELSE PlainValues)
    /\ reference_val \in ReferenceValues
    /\ related \in (IF engine = "iso" THEN RelatedValues ELSE {PyNone})
    /\ inf_norm = Unset
    /\ ref_norm = Unset
    /\ ret = Unset
    /\ scores = NoDict
    /\ ncalls = 0
    /\ probe = NoProbe
    /\ NoPipeline

\* test.py: f_scores = calculate_veregin_score(inf, ref)
ScoreField ==
    /\ pc = "call"
    /\ engine = "test"
    /\ ret' = calculate_veregin_score(inferred_val, reference_val)
    /\ scores' = ret'
    /\ inf_norm' = IF IsComplete(inferred_val) THEN normalize(inferred_val) ELSE Unset
    /\ ref_norm' = IF IsComplete(inferred_val) THEN normalize(reference_val) ELSE Unset
    /\ ncalls' = ncalls + 1
    /\ probe' = Recorded(ret')
    /\ pc' = "done"
    /\ UNCHANGED <<pageVars, callVars, pipeVars>>

\* comp.py: geom_score = calculate_veregin_score(inferred['geom'], truth['geom'])
CompScoreField ==
    /\ pc = "call"
    /\ engine = "comp"
    /\ ret' = comp_calculate_veregin_score(inferred_val, reference_val)
    /\ ncalls' = ncalls + 1
    /\ probe' = Recorded(ret')
    /\ pc' = "done"
    /\ UNCHANGED <<pageVars, callVars, pipeVars, inf_norm, ref_norm, scores>>

\* ISO.py: results[field] = evaluate_field(inferred, reference, related)
IsoEvaluateField ==
    /\ pc = "call"
    /\ engine = "iso"
    /\ ret' = evaluate_field(inferred_val, reference_val, related)
    /\ ncalls' = ncalls + 1
    /\ probe' = Recorded(ret')
    /\ pc' = "done"
    /\ UNCHANGED <<pageVars, callVars, pipeVars, inf_norm, ref_norm, scores>>

Next == ScoreField \/ CompScoreField \/ IsoEvaluateField

Spec == Init /\ [][Next]_vars

-----------------------------------------------------------------------------
(* The criteria of the finished call, whichever engine made it *)

Scored(e) == pc = "done" /\ engine = e

RetCorrectness ==
    CASE engine = "test" -> ret["Correctness"]
      [] engine = "comp" -> ret.corr
      [] engine = "iso" -> ret["correctness"]

RetCompleteness ==
    CASE engine = "test" -> ret["Completeness"]
      [] engine = "comp" -> ret.comp
      [] engine = "iso" -> ret["completeness"]

RetConsistency ==
    CASE engine = "test" -> ret["Consistency"]
      [] engine = "comp" -> ret.cons
      [] engine = "iso" -> ret["consistency"]

RetGranularity ==
    CASE engine = "test" -> ret["Granularity"]
      [] engine = "comp" -> ret.gran
      [] engine = "iso" -> ret["granularity"]

\* the values the specification calls "not detected"
IsSentinel(v) ==
    v \in {PyNone, PyStr(S_Unknown), PyList(<< >>), PyDict(<< >>), PyStr(S_Empty)}

(***************************************************************************)
(* C1: whenever the inferred value is None, "Unknown", an empty list, an   *)
(* empty mapping or an empty string, calculate_veregin_score returns       *)
(* Correctness = Completeness = Consistency = Granularity = 0, whatever    *)
(* the reference is.                                                       *)
(***************************************************************************)
C1_SentinelScoresAllZero ==
    (Scored("test") /\ IsSentinel(inferred_val))
        => \A k \in Criteria : ret[k] = 0

(***************************************************************************)
(* C2: every dict calculate_veregin_score returns has the four criteria in *)
(* 0..2 and a Total key holding their sum (so in 0..8), also when          *)
(* Completeness is 0.                                                      *)
(***************************************************************************)
C2_ScoreVectorHasTotal ==
    Scored("test")
        => /\ \A k \in Criteria : ret[k] \in 0..2
           /\ "Total" \in DOMAIN ret
           /\ ret["Total"] = ret["Correctness"] + ret["Completeness"]
                               + ret["Consistency"] + ret["Granularity"]
           /\ ret["Total"] \in 0..8

(***************************************************************************)
(* C3: for a complete inferred value, Correctness is 2 when the normalized *)
(* strings are equal, 1 when they differ and one is a substring of the     *)
(* other (either direction), 0 otherwise.                                  *)
(***************************************************************************)
C3_CorrectnessRule ==
    (Scored("test") /\ ret["Completeness"] = 2)
        => ret["Correctness"] =
              (IF inf_norm = ref_norm THEN 2
               ELSE IF Contains(inf_norm, ref_norm) \/ Contains(ref_norm, inf_norm) THEN 1
               ELSE 0)

(***************************************************************************)
(* C4: wherever a numeric field is scored against a numeric reference,     *)
(* Correctness is 2 when |inferred - reference| < 0.01, 1 when it is in    *)
(* [0.01, 0.5), 0 when it is >= 0.5.                                       *)
(***************************************************************************)
C4_NumericTolerance ==
    (pc = "done" /\ engine \in {"test", "comp"}
       /\ IsNumber(inferred_val) /\ IsNumber(reference_val))
        => LET diff == Abs(Thousandths(inferred_val) - Thousandths(reference_val))
           IN  RetCorrectness = (IF diff < 10 THEN 2 ELSE IF diff < 500 THEN 1 ELSE 0)

\* the normalized inferred value names a concrete geometry subtype
NamesSubtype(str) ==
    \/ \E x \in {S_POINT, S_LINESTRING, S_POLYGON} : Contains(x, str)
    \/ Contains(S_MULTI, str)

(***************************************************************************)
(* C7: for a complete inferred value Granularity is 2 when the value names *)
(* a concrete geometry subtype (POINT, LINESTRING, POLYGON, or contains    *)
(* MULTI) or matches the reference exactly (a number equal to its          *)
(* reference included), and 1 otherwise; Granularity is 0 exactly when     *)
(* Completeness is 0.                                                      *)
(***************************************************************************)
C7_GranularityRule ==
    Scored("test")
        => /\ (ret["Granularity"] = 0) <=> (ret["Completeness"] = 0)
           /\ ret["Completeness"] = 2
                => ret["Granularity"] =
                      (IF NamesSubtype(inf_norm) \/ inf_norm = ref_norm THEN 2 ELSE 1)

(***************************************************************************)
(* C8: when no field-specific rule applies (no related value), Consistency *)
(* is 2 whenever Completeness > 0 and 0 whenever Completeness = 0,         *)
(* whatever Correctness and the reference are.                             *)
(***************************************************************************)
C8_DefaultConsistency ==
    (pc = "done" /\ related = PyNone /\ (engine = "comp" => ~ret.raised))
        => RetConsistency = (IF RetCompleteness > 0 THEN 2 ELSE 0)

-----------------------------------------------------------------------------
(* Normalization runs: calculate_veregin_score on strings that repeat the  *)
(* words of the synonym fold.                                              *)

MaxNormPieces == 4

NormPieces == {S_MULTI, S_POLYGON, S_Space, S_point}

NormValues ==
    {PyStr(str) : str \in StringsUpTo(NormPieces, MaxNormPieces)}
        \cup {PyList(<<PyStr(str)>>) : str \in StringsUpTo(NormPieces, 2)}

InitNorm ==
    /\ NoPage
    /\ pc = "call"
    /\ engine = "test"
    /\ inferred_val \in NormValues
    /\ reference_val \in {PyStr(S_POLYGON), PyStr(S_MULTIPOLYGON)}
    /\ related = PyNone
    /\ inf_norm = Unset
    /\ ref_norm = Unset
    /\ ret = Unset
    /\ scores = NoDict
    /\ ncalls = 0
    /\ probe = NoProbe
    /\ NoPipeline

NextNorm == ScoreField

SpecNorm == InitNorm /\ [][NextNorm]_vars

(***************************************************************************)
(* C5: normalization is idempotent: normalizing the normalized string that *)
(* calculate_veregin_score computed gives that string again.               *)
(***************************************************************************)
C5_NormalizeIdempotent ==
    (Scored("test") /\ ret["Completeness"] = 2)
        => /\ normalize(PyStr(inf_norm)) = inf_norm
           /\ normalize(PyStr(ref_norm)) = ref_norm

-----------------------------------------------------------------------------
(* Synonym-fold runs: POLYGON against MULTIPOLYGON in every letter case    *)

\* the word with the letters at the positions of lowered in lower case
ApplyCase(word, lowered) ==
    [i \in 1..Len(word) |-> IF i \in lowered THEN LowerChar(word[i]) ELSE word[i]]

\* v spells word in some letter case, as a string or as a one-element list
Spells(v, word) ==
    \/ v.kind = "str" /\ Upper(v.s) = word
    \/ /\ v.kind = "list"
       /\ Len(v.items) = 1
       /\ v.items[1].kind = "str"
       /\ Upper(v.items[1].s) = word

\* the word in one of three usual spellings
Styled(word, style) ==
    ApplyCase(word, CASE style = "upper" -> {}
                      [] style = "lower" -> 1..Len(word)
                      [] style = "title" -> 2..Len(word))

\* one word takes every letter case, the other the three usual spellings
InitFold ==
    /\ NoPage
    /\ pc = "call"
    /\ engine = "test"
    /\ \E lowered \in SUBSET (1..Len(S_MULTIPOLYGON)), style \in {"upper", "lower", "title"},
          free \in {"poly", "multi"}, asList \in BOOLEAN, swapped \in BOOLEAN :
          LET poly == PyStr(IF free = "poly"
                            THEN ApplyCase(S_POLYGON, lowered \cap (1..Len(S_POLYGON)))
                            ELSE Styled(S_POLYGON, style))
              multi == PyStr(IF free = "multi"
                             THEN ApplyCase(S_MULTIPOLYGON, lowered)
                             ELSE Styled(S_MULTIPOLYGON, style))
              inf == IF swapped THEN multi ELSE poly
              ref == IF swapped THEN poly ELSE multi
          IN  /\ inferred_val = (IF asList THEN PyList(<<inf>>) ELSE inf)
              /\ reference_val = ref
    /\ related = PyNone
    /\ inf_norm = Unset
    /\ ref_norm = Unset
    /\ ret = Unset
    /\ scores = NoDict
    /\ ncalls = 0
    /\ probe = NoProbe
    /\ NoPipeline

NextFold == ScoreField

SpecFold == InitFold /\ [][NextFold]_vars

(***************************************************************************)
(* C6: with inferred POLYGON (a string or a one-element list, in any       *)
(* letter case) and reference MULTIPOLYGON, or the two swapped,            *)
(* calculate_veregin_score returns Correctness = 2 and Granularity = 2.    *)
(***************************************************************************)
C6_SynonymFold ==
    (/\ Scored("test")
     /\ \/ Spells(inferred_val, S_POLYGON) /\ Spells(reference_val, S_MULTIPOLYGON)
        \/ Spells(inferred_val, S_MULTIPOLYGON) /\ Spells(reference_val, S_POLYGON))
        => ret["Correctness"] = 2 /\ ret["Granularity"] = 2

\* a one-element list spelling polygon in lower case was scored against MULTIPOLYGON
C6_Witness ==
    /\ Scored("test")
    /\ inferred_val = PyList(<<PyStr(Lower(S_POLYGON))>>)
    /\ reference_val = PyStr(S_MULTIPOLYGON)
    /\ ret["Correctness"] = 2
    /\ ret["Granularity"] = 2

-----------------------------------------------------------------------------
(* Sessions: several scoring calls one after another in one process        *)

MaxCalls == 3

SessionInferred ==
    {PyNone, PyStr(S_Unknown), PyStr(S_POINT), PyStr(S_GEOMETRY),
     PyList(<<PyStr(S_POLYGON)>>), PyInt(5)}

SessionReference == {PyNone, PyStr(S_POINT), PyStr(S_MULTIPOLYGON), PyInt(5)}

SessionEngines == {"test", "iso"}

InitSession ==
    /\ NoPage
    /\ pc = "call"
    /\ engine \in SessionEngines
    /\ inferred_val \in SessionInferred
    /\ reference_val \in SessionReference
    /\ related \in (IF engine = "iso" THEN {PyNone, PyStr(S_2D)} ELSE {PyNone})
    /\ inf_norm = Unset
    /\ ref_norm = Unset
    /\ ret = Unset
    /\ scores = NoDict
    /\ ncalls = 0
    /\ probe = NoProbe
    /\ NoPipeline

\* the caller moves on to its next field: another call, with other arguments
NextField ==
    /\ pc = "done"
    /\ ncalls < MaxCalls
    /\ engine' \in SessionEngines
    /\ inferred_val' \in SessionInferred
    /\ reference_val' \in SessionReference
    /\ related' \in (IF engine' = "iso" THEN {PyNone, PyStr(S_2D)} ELSE {PyNone})
    /\ pc' = "call"
    /\ UNCHANGED <<pageVars, inf_norm, ref_norm, ret, scores, ncalls, probe, pipeVars>>

NextSession == ScoreField \/ IsoEvaluateField \/ NextField

SpecSession == InitSession /\ [][NextSession]_vars

\* the finished call has the arguments of the first call of the session
SameAsProbe ==
    /\ pc = "done"
    /\ probe.set
    /\ probe.engine = engine
    /\ probe.inferred = inferred_val
    /\ probe.reference = reference_val
    /\ probe.related = related

-----------------------------------------------------------------------------
(* Datasets: the DataFrame pd.read_csv hands to the inference methods      *)

MaxRows == 3

Columns == {"WKT_LNG_LAT", "LAT", "LNG"}

\* the cell of a column the dataset does not have
Absent == [kind |-> "absent", s |-> << >>, items |-> << >>, n |-> 0]

\* rows of the uploaded table; LAT and LNG in thousandths of a degree
RowSamples ==
    {[WKT_LNG_LAT |-> PyStr(S_WktPoint), LAT |-> PyFloat(52370), LNG |-> PyFloat(4900)],
     [WKT_LNG_LAT |-> PyStr(S_WktPolygon), LAT |-> PyFloat(-90000), LNG |-> PyFloat(180000)],
     [WKT_LNG_LAT |-> PyStr(S_WktLower), LAT |-> PyFloat(95000), LNG |-> PyFloat(4900)],
     [WKT_LNG_LAT |-> NaN, LAT |-> NaN, LNG |-> PyFloat(200000)]}

RECURSIVE RowSeqs(_)
RowSeqs(k) ==
    IF k = 0 THEN {<< >>}
    ELSE LET shorter == RowSeqs(k - 1)
         IN  shorter \cup {<<r>> \o rs : r \in RowSamples, rs \in {x \in shorter : Len(x) = k - 1}}

Project(row, cols) == [c \in Columns |-> IF c \in cols THEN row[c] ELSE Absent]

\* test.py stops on an empty DataFrame, so a dataset that reaches the
\* inference has at least one row and one column
Datasets ==
    {[columns |-> cols, rows |-> [i \in 1..Len(rs) |-> Project(rs[i], cols)]] :
        cols \in (SUBSET Columns) \ {{}}, rs \in RowSeqs(MaxRows) \ {<< >>}}

\* len(df)
len(d) == Len(d.rows)

\* df[c]
Column(d, c) == [i \in 1..Len(d.rows) |-> d.rows[i][c]]

\* the dtype pandas gives the column: object as soon as a cell is a string
\* (and for a column without rows), int64 when every cell is an integer
Dtype(d, c) ==
    IF len(d) = 0 \/ \E i \in 1..len(d) : d.rows[i][c].kind = "str" THEN S_object
    ELSE IF \A i \in 1..len(d) : d.rows[i][c].kind = "int" THEN S_int64
    ELSE S_float64

\* df[c].nunique(): the number of distinct values, missing cells left out
nunique(d, c) ==
    Cardinality({cell \in {d.rows[i][c] : i \in 1..len(d)} : cell.kind # "nan"})

\* df[c].isnull().sum()
isnull_sum(d, c) == Cardinality({i \in 1..len(d) : d.rows[i][c].kind = "nan"})

RECURSIVE SeqMin(_)
SeqMin(ns) ==
    IF Len(ns) = 1 THEN ns[1]
    ELSE LET m == SeqMin(Tail(ns)) IN IF ns[1] < m THEN ns[1] ELSE m

RECURSIVE SeqMax(_)
SeqMax(ns) ==
    IF Len(ns) = 1 THEN ns[1]
    ELSE LET m == SeqMax(Tail(ns)) IN IF ns[1] > m THEN ns[1] ELSE m

RECURSIVE Numbers(_)
Numbers(cells) ==
    IF cells = << >> THEN << >>
    ELSE (IF IsNumber(Head(cells)) THEN <<Thousandths(Head(cells))>> ELSE << >>)
            \o Numbers(Tail(cells))

\* float(df[c].min()): missing cells are skipped, nan when every cell is missing
ColumnMin(d, c) ==
    LET ns == Numbers(Column(d, c)) IN IF ns = << >> THEN NaN ELSE PyFloat(SeqMin(ns))

\* float(df[c].max())
ColumnMax(d, c) ==
    LET ns == Numbers(Column(d, c)) IN IF ns = << >> THEN NaN ELSE PyFloat(SeqMax(ns))

-----------------------------------------------------------------------------
(* The inference methods of test.py *)

\* pd.to_numeric(df[c], errors='coerce').between(lo, hi).all()
AllBetween(d, c, lo, hi) ==
    \A i \in 1..len(d) :
        LET cell == d.rows[i][c]
        IN  IsNumber(cell) /\ lo <= Thousandths(cell) /\ Thousandths(cell) <= hi

infer_crs(d) ==
    IF /\ "LAT" \in d.columns
       /\ "LNG" \in d.columns
       /\ AllBetween(d, "LAT", -90000, 90000)
       /\ AllBetween(d, "LNG", -180000, 180000)
    THEN PyDict(<<PyEntry(S_auth_name, PyStr(S_EPSG)), PyEntry(S_code, PyStr(S_4326)),
                  PyEntry(S_name, PyStr(S_WGS84)), PyEntry(S_units, PyStr(S_DecimalDegrees))>>)
    ELSE PyDict(<<PyEntry(S_name, PyStr(S_UnknownProjected)),
                  PyEntry(S_code, PyStr(S_Undefined))>>)

\* the match of ^([A-Z]+): the leading run of upper-case letters
RECURSIVE LeadingUpper(_)
LeadingUpper(str) ==
    IF str # << >> /\ (\E i \in 1..26 : UpperCase[i] = Head(str))
    THEN <<Head(str)>> \o LeadingUpper(Tail(str))
    ELSE << >>

\* Series.str.extract(r'^([A-Z]+)', expand=False) on one cell
Extract(cell) ==
    IF cell.kind # "str" \/ LeadingUpper(cell.s) = << >> THEN NaN
    ELSE PyStr(LeadingUpper(cell.s))

\* Series.unique(): the distinct values in order of first occurrence, the
\* missing value once
RECURSIVE Unique(_)
Unique(cells) ==
    IF cells = << >> THEN << >>
    ELSE LET front == Unique(SubSeq(cells, 1, Len(cells) - 1))
             last == cells[Len(cells)]
         IN  IF \E i \in 1..Len(front) : front[i] = last THEN front
             ELSE Append(front, last)

\* [g for g in extracted if pd.notna(g)]
RECURSIVE NotNa(_)
NotNa(cells) ==
    IF cells = << >> THEN << >>
    ELSE (IF Head(cells).kind = "nan" THEN << >> ELSE <<Head(cells)>>) \o NotNa(Tail(cells))

\* the .str accessor raises AttributeError on a column without a string
StrAccessorRaises(d, c) == c \in d.columns /\ Dtype(d, c) # S_object

ColumnOrder == <<"WKT_LNG_LAT", "LAT", "LNG">>
ColumnName(c) ==
    CASE c = "WKT_LNG_LAT" -> S_WKT_LNG_LAT [] c = "LAT" -> S_LAT [] c = "LNG" -> S_LNG

RECURSIVE AttributeEntries(_, _)
AttributeEntries(d, cs) ==
    IF cs = << >> THEN << >>
    ELSE (IF Head(cs) \in d.columns
          THEN <<PyEntry(ColumnName(Head(cs)), PyStr(Dtype(d, Head(cs))))>>
          ELSE << >>) \o AttributeEntries(d, Tail(cs))

get_rule_based_metadata(d) ==
    LET geom_types ==
            IF "WKT_LNG_LAT" \in d.columns
            THEN PyList(NotNa(Unique([i \in 1..len(d) |-> Extract(d.rows[i]["WKT_LNG_LAT"])])))
            ELSE PyStr(S_Unknown)
    IN  [method |-> PyStr(S_RuleBased),
         geometry_type |-> geom_types,
         spatial_reference |-> infer_crs(d),
         attributes |-> PyDict(AttributeEntries(d, ColumnOrder))]

get_statistical_metadata(d) ==
    [method |-> PyStr(S_StatisticalProfiling),
     geometry_type |-> PyStr(S_PointEstimated),
     spatial_reference |-> PyDict(<<PyEntry(S_name, PyStr(S_Geographic2D)),
                                    PyEntry(S_code, PyStr(S_4326))>>),
     total_features |-> PyInt(len(d))]

get_heuristic_metadata(d) ==
    [method |-> PyStr(S_HeuristicBased),
     geometry_type |-> PyStr(S_POINT),
     spatial_reference |-> infer_crs(d),
     total_features |-> PyInt(len(d))]

\* metadata.get(key)
Get(record, key) == IF key \in DOMAIN record THEN record[key] ELSE PyNone

\* record[key] = value
Put(record, key, value) ==
    [k \in DOMAIN record \cup {key} |-> IF k = key THEN value ELSE record[k]]

geographic_extent(d) ==
    PyDict(<<PyEntry(S_min_x, IF "LNG" \in d.columns THEN ColumnMin(d, "LNG") ELSE PyNone),
             PyEntry(S_max_x, IF "LNG" \in d.columns THEN ColumnMax(d, "LNG") ELSE PyNone),
             PyEntry(S_min_y, IF "LAT" \in d.columns THEN ColumnMin(d, "LAT") ELSE PyNone),
             PyEntry(S_max_y, IF "LAT" \in d.columns THEN ColumnMax(d, "LAT") ELSE PyNone)>>)

-----------------------------------------------------------------------------
(* The generation pipeline of test.py, followed by a comparison of the     *)
(* generated record with itself                                            *)

Methods == {"Rule-Based (Schema)", "Statistical Profiling", "Heuristic-Based"}

ScoredFields == {"geometry_type", "total_features"}

InitPipeline ==
    /\ NoPage
    /\ pc = "infer"
    /\ df \in Datasets
    /\ method \in Methods
    /\ metadata = Unset
    /\ reference_data = Unset
    /\ eval_report = Unset
    /\ content = Unset
    /\ mid_text = Unset
    /\ engine = "test"
    /\ inferred_val = PyNone
    /\ reference_val = PyNone
    /\ related = PyNone
    /\ inf_norm = Unset
    /\ ref_norm = Unset
    /\ ret = Unset
    /\ scores = NoDict
    /\ ncalls = 0
    /\ probe = NoProbe

scoreVars == <<callVars, inf_norm, ref_norm, ret, scores, ncalls, probe>>

\* metadata = get_rule_based_metadata(df); an exception ends the script run
RunRuleBased ==
    /\ engine = "test"
    /\ pc = "infer"
    /\ method = "Rule-Based (Schema)"
    /\ IF StrAccessorRaises(df, "WKT_LNG_LAT")
       THEN pc' = "crashed" /\ UNCHANGED metadata
       ELSE pc' = "attach" /\ metadata' = get_rule_based_metadata(df)
    /\ UNCHANGED <<pageVars, df, method, reference_data, eval_report, content, mid_text, scoreVars>>

\* metadata = get_statistical_metadata(df)
RunStatistical ==
    /\ engine = "test"
    /\ pc = "infer"
    /\ method = "Statistical Profiling"
    /\ metadata' = get_statistical_metadata(df)
    /\ pc' = "attach"
    /\ UNCHANGED <<pageVars, df, method, reference_data, eval_report, content, mid_text, scoreVars>>

\* metadata = get_heuristic_metadata(df)
RunHeuristic ==
    /\ engine = "test"
    /\ pc = "infer"
    /\ method = "Heuristic-Based"
    /\ metadata' = get_heuristic_metadata(df)
    /\ pc' = "attach"
    /\ UNCHANGED <<pageVars, df, method, reference_data, eval_report, content, mid_text, scoreVars>>

\* metadata["total_features"] = len(df); metadata["geographic_extent"] = {...}
AttachShared ==
    /\ engine = "test"
    /\ pc = "attach"
    /\ metadata' = Put(Put(metadata, "total_features", PyInt(len(df))),
                       "geographic_extent", geographic_extent(df))
    /\ pc' = "generated"
    /\ shown' = shown \cup {"metadata"}
    /\ UNCHANGED <<uploadVars, df, method, reference_data, eval_report, content, mid_text, scoreVars>>

\* the generated record is taken as the reference and every scored field
\* is scored against it
SelfCompare ==
    /\ pc = "generated"
    /\ reference_data' = metadata
    /\ eval_report' = [f \in ScoredFields |->
                          calculate_veregin_score(Get(metadata, f), Get(metadata, f))]
    /\ pc' = "done"
    /\ UNCHANGED <<pageVars, df, method, metadata, content, mid_text, scoreVars>>

NextRoundTrip ==
    RunRuleBased \/ RunStatistical \/ RunHeuristic \/ AttachShared \/ SelfCompare

SpecRoundTrip == InitPipeline /\ [][NextRoundTrip]_vars

(***************************************************************************)
(* C9: scoring each scored field (geometry_type, total_features) of a      *)
(* generated MetadataRecord against the same record gives Correctness =    *)
(* Completeness = Consistency = Granularity = 2.                           *)
(***************************************************************************)
C9_SelfComparisonPerfect ==
    (pc = "done" /\ eval_report # Unset)
        => \A f \in ScoredFields : \A k \in Criteria : eval_report[f][k] = 2

-----------------------------------------------------------------------------
(* MIF reference files and their parsers                                   *)

S_Region == <<"R", "e", "g", "i", "o", "n">>
S_Line == <<"L", "i", "n", "e">>
S_Pline == <<"P", "l", "i", "n", "e">>
S_Point == <<"P", "o", "i", "n", "t">>
S_Rect == <<"R", "e", "c", "t">>
S_Ellipse == <<"E", "l", "l", "i", "p", "s", "e">>
S_Arc == <<"A", "r", "c">>
S_Bounds == <<"B", "o", "u", "n", "d", "s">>
S_MifPoint == <<"P", "o", "i", "n", "t", " ", "1", " ", "2">>
S_MifPointLower == <<"p", "o", "i", "n", "t", " ", "1", " ", "2">>
S_MifRegion == <<"R", "e", "g", "i", "o", "n", " ", "1">>
S_MifPline == <<"P", "l", "i", "n", "e", " ", "2">>
S_MifLine == <<"L", "i", "n", "e", " ", "0", " ", "0", " ", "1", " ", "1">>
S_MifIndented == <<" ", "P", "o", "i", "n", "t", " ", "1", " ", "2">>
S_MifBounds == <<"B", "o", "u", "n", "d", "s", " ", "(", "0", " ", "1", ")", " ", "(", "2",
    " ", "3", ")">>
S_MifRect == <<"R", "e", "c", "t", " ", "0", " ", "0", " ", "1", " ", "1">>
S_MifArc == <<"A", "R", "C", " ", "0", " ", "0", " ", "1", " ", "1">>
S_MifEllipse == <<"E", "l", "l", "i", "p", "s", "e", " ", "0", " ", "0", " ", "1", " ", "1">>

\* str.startswith(prefix)
startswith(str, prefix) ==
    Len(prefix) <= Len(str) /\ SubSeq(str, 1, Len(prefix)) = prefix

\* the positions where ^ matches under re.MULTILINE: the start of the text
\* and the position after every newline
LineStarts(text) == {1} \cup {i + 1 : i \in {j \in 1..Len(text) : text[j] = "\n"}}

\* the alternatives of the pattern ^(Point|Line|Pline|Region|Rect|Ellipse|Arc)
FeatureTokens == {S_Point, S_Line, S_Pline, S_Region, S_Rect, S_Ellipse, S_Arc}

\* the token matches at position p, letter case ignored (re.IGNORECASE)
MatchesIgnoreCase(tok, text, p) ==
    /\ p + Len(tok) - 1 <= Len(text)
    /\ Lower(SubSeq(text, p, p + Len(tok) - 1)) = Lower(tok)

\* the count when the letter case of the tokens has to match
CountFeatures_cased(text) ==
    Cardinality({p \in LineStarts(text) :
                    \E tok \in FeatureTokens :
                        /\ p + Len(tok) - 1 <= Len(text)
                        /\ SubSeq(text, p, p + Len(tok) - 1) = tok})

\* len(re.findall(r'^(Point|...|Arc)', content, re.MULTILINE | re.IGNORECASE))
CountFeatures(text) ==
    Cardinality({p \in LineStarts(text) :
                    \E tok \in FeatureTokens : MatchesIgnoreCase(tok, text, p)})

\* test.py parse_mif_reference, on the decoded text
parse_mif_reference(text) ==
    LET geometry ==
            IF Contains(S_Region, text) THEN S_POLYGON
            ELSE IF Contains(S_Line, text) \/ Contains(S_Pline, text) THEN S_LINESTRING
            ELSE IF Contains(S_Point, text) THEN S_POINT
            ELSE S_Unknown
        features == CountFeatures(text)
    IN  [geometry_type |-> PyStr(geometry),
         total_features |-> IF features > 0 THEN PyInt(features) ELSE PyStr(S_Unknown)]

\* str.splitlines(), for a text whose only line break is "\n"
RECURSIVE splitlines(_)
splitlines(text) ==
    IF text = << >> THEN << >>
    ELSE IF \E i \in 1..Len(text) : text[i] = "\n"
    THEN LET k == CHOOSE i \in 1..Len(text) :
                     text[i] = "\n" /\ \A j \in 1..(i - 1) : text[j] # "\n"
         IN  <<SubSeq(text, 1, k - 1)>> \o splitlines(SubSeq(text, k + 1, Len(text)))
    ELSE <<text>>

\* line.split()[0], for a line with a non-blank character
RECURSIVE UntilWhitespace(_)
UntilWhitespace(str) ==
    IF str = << >> \/ Head(str) \in Whitespace THEN << >>
    ELSE <<Head(str)>> \o UntilWhitespace(Tail(str))

FirstWord(line) == UntilWhitespace(LStrip(line))

IsDigit(c) == \E i \in 1..10 : Digits[i] = c

\* the length of the run of digits that starts at position i
RECURSIVE DigitRun(_, _)
DigitRun(str, i) ==
    IF i <= Len(str) /\ IsDigit(str[i]) THEN 1 + DigitRun(str, i + 1) ELSE 0

\* the length of the match of [-+]?\d*\.\d+ at position i, 0 when it fails
DecimalMatch(str, i) ==
    LET sign == IF str[i] \in {"-", "+"} THEN 1 ELSE 0
        whole == DigitRun(str, i + sign)
        dot == i + sign + whole
        frac == DigitRun(str, dot + 1)
    IN  IF dot <= Len(str) /\ str[dot] = "." /\ frac >= 1
        THEN sign + whole + 1 + frac ELSE 0

\* re.findall(r"[-+]?\d*\.\d+|\d+", line), scanning from position i
RECURSIVE FindNumbers(_, _)
FindNumbers(str, i) ==
    IF i > Len(str) THEN << >>
    ELSE IF DecimalMatch(str, i) > 0
    THEN <<SubSeq(str, i, i + DecimalMatch(str, i) - 1)>>
            \o FindNumbers(str, i + DecimalMatch(str, i))
    ELSE IF DigitRun(str, i) > 0
    THEN <<SubSeq(str, i, i + DigitRun(str, i) - 1)>> \o FindNumbers(str, i + DigitRun(str, i))
    ELSE FindNumbers(str, i + 1)

DigitValue(c) == (CHOOSE i \in 1..10 : Digits[i] = c) - 1

\* the number a run of digits denotes
RECURSIVE ParseNat(_)
ParseNat(digs) ==
    IF digs = << >> THEN 0
    ELSE 10 * ParseNat(SubSeq(digs, 1, Len(digs) - 1)) + DigitValue(digs[Len(digs)])

\* float(num) for a match of the pattern above, in thousandths (the
\* fraction is kept to three digits)
ParseFloat(num) ==
    LET negative == num[1] = "-"
        body == IF num[1] \in {"-", "+"} THEN Tail(num) ELSE num
        whole == DigitRun(body, 1)
        frac == IF whole < Len(body) THEN SubSeq(body, whole + 2, Len(body)) ELSE << >>
        three == SubSeq(frac \o <<"0", "0", "0">>, 1, 3)
        magnitude == 1000 * ParseNat(SubSeq(body, 1, whole)) + ParseNat(three)
    IN  PyFloat(IF negative THEN -magnitude ELSE magnitude)

BoundsKeys == <<S_min_x, S_min_y, S_max_x, S_max_y>>

\* the bounding box the line declares, bounds unchanged when it declares none
BoundsOf(line, bounds) ==
    IF startswith(line, S_Bounds)
    THEN LET nums == FindNumbers(line, 1)
         IN  IF Len(nums) = 4
             THEN PyDict([i \in 1..4 |-> PyEntry(BoundsKeys[i], ParseFloat(nums[i]))])
             ELSE bounds
    ELSE bounds

\* the loop of ISO.py parse_mif over the lines, from the state <<geometry_type, bounds>>
RECURSIVE ParseMifLines(_, _, _)
ParseMifLines(lines, geometry_type, bounds) ==
    IF lines = << >> THEN <<geometry_type, bounds>>
    ELSE LET line == Strip(Head(lines))
             geometry ==
                 IF \E kw \in {S_Point, S_Line, S_Pline, S_Region} : startswith(line, kw)
                 THEN PyStr(FirstWord(line))
                 ELSE geometry_type
         IN  ParseMifLines(Tail(lines), geometry, BoundsOf(line, bounds))

\* ISO.py parse_mif
parse_mif(mif_text) ==
    LET parsed == ParseMifLines(splitlines(mif_text), PyNone, PyNone)
    IN  [geometry_type |-> parsed[1],
         bounding_box |-> parsed[2],
         dimensionality |-> PyStr(S_2D)]

\* ISO.py parse_mid: the number of non-blank lines
parse_mid(text) ==
    LET rows == splitlines(text)
    IN  [total_features |-> PyInt(Cardinality({i \in 1..Len(rows) : Strip(rows[i]) # << >>}))]

-----------------------------------------------------------------------------
(* Parsing an uploaded MIF reference: the text is drawn at the start, the  *)
(* parser of the script that runs is applied to it.                        *)

MaxLines == 2

\* lines of the uploaded MIF files
MifLines == {S_MifPoint, S_MifPointLower, S_MifRegion, S_MifPline, S_MifLine,
             S_MifIndented, S_MifBounds, S_MifRect, S_MifArc, S_MifEllipse}

\* every text of at most k lines, the lines separated by "\n"
RECURSIVE TextsUpTo(_)
TextsUpTo(k) ==
    IF k = 0 THEN {S_Empty}
    ELSE LET shorter == TextsUpTo(k - 1)
         IN  shorter \cup MifLines
                \cup {l \o <<"\n">> \o t : l \in MifLines, t \in shorter \ {S_Empty}}

\* with or without a final line break
MifTexts == TextsUpTo(MaxLines) \cup {t \o <<"\n">> : t \in TextsUpTo(MaxLines) \ {S_Empty}}

InitMif ==
    /\ NoPage
    /\ pc = "parse"
    /\ engine \in {"test", "iso"}
    /\ content \in MifTexts
    /\ mid_text = Unset
    /\ inferred_val = PyNone
    /\ reference_val = PyNone
    /\ related = PyNone
    /\ inf_norm = Unset
    /\ ref_norm = Unset
    /\ ret = Unset
    /\ scores = NoDict
    /\ ncalls = 0
    /\ probe = NoProbe
    /\ df = Unset
    /\ method = Unset
    /\ metadata = Unset
    /\ reference_data = Unset
    /\ eval_report = Unset

\* test.py: reference_data = parse_mif_reference(ref_file.read())
ParseMifReference ==
    /\ pc = "parse"
    /\ engine = "test"
    /\ reference_data' = parse_mif_reference(content)
    /\ pc' = "parsed"
    /\ UNCHANGED <<pageVars, df, method, metadata, eval_report, content, mid_text, scoreVars>>

\* ISO.py: ref_mif = parse_mif(mif_text)
ParseMif ==
    /\ pc = "parse"
    /\ engine = "iso"
    /\ reference_data' = parse_mif(content)
    /\ pc' = "parsed"
    /\ UNCHANGED <<pageVars, df, method, metadata, eval_report, content, mid_text, scoreVars>>

NextMif == ParseMifReference \/ ParseMif

SpecMif == InitMif /\ [][NextMif]_vars

(***************************************************************************)
(* C12: the MIF reference parser returns POLYGON whenever the text         *)
(* declares a Region, otherwise LINESTRING whenever it declares a Line or  *)
(* Pline, otherwise POINT whenever it declares a Point, otherwise Unknown, *)
(* whatever the order of the keywords in the text.                         *)
(***************************************************************************)
C12_MifGeometryPriority ==
    pc = "parsed" =>
        reference_data.geometry_type =
            PyStr(IF Contains(S_Region, content) THEN S_POLYGON
                  ELSE IF Contains(S_Line, content) \/ Contains(S_Pline, content)
                       THEN S_LINESTRING
                  ELSE IF Contains(S_Point, content) THEN S_POINT
                  ELSE S_Unknown)

\* the lines of the text that start with a feature token, letter case ignored
FeatureLines ==
    LET lines == splitlines(content)
    IN  {i \in 1..Len(lines) :
            \E tok \in FeatureTokens : startswith(Upper(lines[i]), Upper(tok))}

(***************************************************************************)
(* C13: parse_mif_reference reports total_features as the number of lines  *)
(* that start with Point, Line, Pline, Region, Rect, Ellipse or Arc, in    *)
(* any letter case; when that number is zero it reports the Unknown        *)
(* sentinel, never the integer 0.                                          *)
(***************************************************************************)
C13_MifFeatureCount ==
    (pc = "parsed" /\ engine = "test") =>
        /\ reference_data.total_features =
              (IF FeatureLines = {} THEN PyStr(S_Unknown)
               ELSE PyInt(Cardinality(FeatureLines)))
        /\ reference_data.total_features # PyInt(0)

\* a text of two lines, one declaring an arc in capitals, one indented
C13_Witness ==
    /\ pc = "parsed"
    /\ engine = "test"
    /\ Contains(S_MifArc, content)
    /\ Contains(S_MifIndented, content)
    /\ reference_data.total_features = PyInt(1)

S_type == <<"t", "y", "p", "e">>
S_dimensionality == <<"d", "i", "m", "e", "n", "s", "i", "o", "n", "a", "l", "i", "t", "y">>
S_dtype == <<"d", "t", "y", "p", "e">>
S_missing == <<"m", "i", "s", "s", "i", "n", "g">>
S_unique == <<"u", "n", "i", "q", "u", "e">>
S_Identifier == <<"I", "d", "e", "n", "t", "i", "f", "i", "e", "r">>
S_Categorical == <<"C", "a", "t", "e", "g", "o", "r", "i", "c", "a", "l">>
S_Continuous == <<"C", "o", "n", "t", "i", "n", "u", "o", "u", "s">>
S_General == <<"G", "e", "n", "e", "r", "a", "l">>
S_ID == <<"I", "D">>
S_VALUE == <<"V", "A", "L", "U", "E">>

\* the columns of a dataset in file order, with their names as strings
AllColumnOrder == <<"WKT_LNG_LAT", "LAT", "LNG", "ID", "VALUE">>
AllColumnName(c) ==
    CASE c = "WKT_LNG_LAT" -> S_WKT_LNG_LAT [] c = "LAT" -> S_LAT [] c = "LNG" -> S_LNG
      [] c = "ID" -> S_ID [] c = "VALUE" -> S_VALUE

\* df.columns, in file order
ColumnsOf(d) == SelectSeq(AllColumnOrder, LAMBDA c : c \in d.columns)

\* {col: f(col) for col in df.columns}
DictOverColumns(d, f) ==
    [i \in 1..Len(ColumnsOf(d)) |->
        PyEntry(AllColumnName(ColumnsOf(d)[i]), f[ColumnsOf(d)[i]])]

\* mapping.get(key, default), for a Python dict
DictGet(mapping, key, default) ==
    IF \E i \in 1..Len(mapping.items) : mapping.items[i].s = key
    THEN mapping.items[CHOOSE i \in 1..Len(mapping.items) : mapping.items[i].s = key].items[1]
    ELSE default

-----------------------------------------------------------------------------
(* The inference methods of ISO.py *)

\* Series.str.extract(...).dropna().unique().tolist()
iso_geometry_types(d) ==
    PyList(Unique(NotNa([i \in 1..len(d) |-> Extract(d.rows[i]["WKT_LNG_LAT"])])))

iso_get_rule_based_metadata(d) ==
    LET dtype_of == [c \in d.columns |-> PyStr(Dtype(d, c))]
    IN  [method |-> PyStr(S_RuleBased),
         geometry_info |->
             PyDict(<<PyEntry(S_type, IF "WKT_LNG_LAT" \in d.columns
                                      THEN iso_geometry_types(d) ELSE PyNone),
                      PyEntry(S_dimensionality, PyStr(S_2D))>>),
         attributes |-> PyDict(DictOverColumns(d, dtype_of)),
         total_features |-> PyInt(len(d))]

iso_get_statistical_metadata(d) ==
    LET stats_of == [c \in d.columns |->
            PyDict(<<PyEntry(S_dtype, PyStr(Dtype(d, c))),
                     PyEntry(S_missing, PyInt(isnull_sum(d, c))),
                     PyEntry(S_unique, PyInt(nunique(d, c)))>>)]
    IN  [method |-> PyStr(S_StatisticalProfiling),
         attribute_stats |-> PyDict(DictOverColumns(d, stats_of)),
         total_features |-> PyInt(len(d))]

\* df[col].nunique() / len(df) raises ZeroDivisionError on a dataset without rows
UniqueRatioRaises(d) == d.columns # {} /\ len(d) = 0

\* unique_ratio > 0.9, for unique_ratio = df[col].nunique() / len(df)
UniqueRatioAbove09(d, c) == 10 * nunique(d, c) > 9 * len(d)

\* the role ISO.py gives a column
iso_role(d, c) ==
    IF Dtype(d, c) = S_int64 /\ UniqueRatioAbove09(d, c) THEN S_Identifier
    ELSE IF nunique(d, c) < 10 THEN S_Categorical
    ELSE IF Dtype(d, c) = S_float64 THEN S_Continuous
    ELSE S_General

iso_get_heuristic_metadata(d) ==
    LET role_of == [c \in d.columns |-> PyStr(iso_role(d, c))]
    IN  [method |-> PyStr(S_HeuristicBased),
         classifications |-> PyDict(DictOverColumns(d, role_of)),
         total_features |-> PyInt(len(d))]

S_unknown == <<"u", "n", "k", "n", "o", "w", "n">>
S_MidRow == <<"1", ",", "\"", "a", "\"">>

-----------------------------------------------------------------------------
(* ISO.py: evaluation of a record against the reference, and aggregation   *)

IsoFields == {"geometry_type", "bounding_box", "attribute_count", "total_features"}

evaluate_metadata_iso(inferred, reference) ==
    LET geometry_info == IF "geometry_info" \in DOMAIN inferred
                         THEN inferred["geometry_info"] ELSE PyDict(<< >>)
    IN  [f \in IsoFields |->
            CASE f = "geometry_type" ->
                    evaluate_field(DictGet(geometry_info, S_type, PyNone),
                                   Get(reference, "geometry_type"),
                                   DictGet(geometry_info, S_dimensionality, PyNone))
              [] f = "bounding_box" ->
                    evaluate_field(Get(inferred, "geographic_extent"),
                                   Get(reference, "bounding_box"), PyNone)
              [] f = "attribute_count" ->
                    evaluate_field(IF "attributes" \in DOMAIN inferred
                                   THEN PyInt(Len(inferred["attributes"].items))
                                   ELSE PyNone,
                                   Get(reference, "attribute_count"), PyNone)
              [] f = "total_features" ->
                    evaluate_field(Get(inferred, "total_features"),
                                   Get(reference, "total_features"), PyNone)]

\* sum(g(k) for k in keys)
RECURSIVE SumOver(_, _)
SumOver(keys, g) ==
    IF keys = {} THEN 0
    ELSE LET k == CHOOSE x \in keys : TRUE IN g[k] + SumOver(keys \ {k}, g)

\* num / den rounded to an integer: to the nearest, ties to the even one
RoundHalfEven(num, den) ==
    LET floor == num \div den
        rest == num % den
    IN  IF 2 * rest < den THEN floor
        ELSE IF 2 * rest > den THEN floor + 1
        ELSE IF floor % 2 = 0 THEN floor ELSE floor + 1

\* round(num / den, 3), in thousandths
Round3(num, den) == RoundHalfEven(1000 * num, den)

\* aggregate_scores with the maximum of one criterion (2) in place of the
\* maximum of one field (8)
aggregate_scores_per_criterion(field_scores) ==
    LET total == SumOver(DOMAIN field_scores, [f \in DOMAIN field_scores |-> field_scores[f]["total"]])
        max_score == Cardinality(DOMAIN field_scores) * 2
    IN  IF max_score = 0 THEN [raised |-> TRUE]
        ELSE [raised |-> FALSE, total_score |-> total, max_score |-> max_score,
              normalized_score |-> PyFloat(Round3(total, max_score))]

\* ISO.py aggregate_scores; the division raises on an empty mapping
aggregate_scores(field_scores) ==
    LET total == SumOver(DOMAIN field_scores, [f \in DOMAIN field_scores |-> field_scores[f]["total"]])
        max_score == Cardinality(DOMAIN field_scores) * 8
    IN  IF max_score = 0 THEN [raised |-> TRUE]
        ELSE [raised |-> FALSE, total_score |-> total, max_score |-> max_score,
              normalized_score |-> PyFloat(Round3(total, max_score))]

-----------------------------------------------------------------------------
(* o.py: the scoring engine, the comparison loop and the leaderboard       *)

score_veregin(inferred, reference) ==
    LET inf == Str(inferred)
        ref == Str(reference)
        four ==
            [Correctness |->
                IF Lower(inf) = Lower(ref) THEN 2
                ELSE IF Contains(inf, ref) \/ Contains(ref, inf) THEN 1 ELSE 0,
             Completeness |->
                IF inferred.kind # "none" /\ Lower(Strip(inf)) \notin {S_unknown, S_Empty}
                THEN 2 ELSE 0,
             Consistency |->
                IF IsNumber(inferred) \/ (inferred.kind = "str" /\ Len(inferred.s) > 0)
                THEN 2 ELSE 0,
             Granularity |->
                IF Upper(inf) = Upper(ref) THEN 2
                ELSE IF Contains(S_GEOMETRY, Upper(inf)) \/ ~Contains(S_Unknown, inf)
                     THEN 1 ELSE 0]
    IN  [k \in Criteria \cup {"Total"} |->
            IF k = "Total"
            THEN four.Correctness + four.Completeness + four.Consistency + four.Granularity
            ELSE four[k]]

OMethods == {"Rule-Based", "Statistical", "Heuristic"}

\* the methods dict of o.py
o_methods(d) ==
    [m \in OMethods |->
        [geometry_type |-> PyStr(IF m = "Heuristic" THEN S_GEOMETRY ELSE S_POINT),
         attribute_count |-> PyInt(Cardinality(d.columns))]]

\* the comparison loop: the fields of the reference the method has
o_eval_results(d, ground_truth) ==
    [m \in OMethods |->
        [f \in DOMAIN ground_truth \cap DOMAIN o_methods(d)[m] |->
            score_veregin(o_methods(d)[m][f], ground_truth[f])]]

\* the leaderboard: Total per method, and its percentage of max_score
o_leaderboard(eval_results, ground_truth) ==
    LET max_score == Cardinality(DOMAIN ground_truth) * 8
    IN  IF \A m \in OMethods : DOMAIN eval_results[m] = {}
        THEN [raised |-> TRUE]
        ELSE [raised |-> FALSE, max_score |-> max_score,
              leaderboard |->
                  [m \in OMethods |->
                      LET total == SumOver(DOMAIN eval_results[m],
                                           [f \in DOMAIN eval_results[m] |->
                                               eval_results[m][f]["Total"]])
                      IN  [Total |-> total,
                           Accuracy |-> PyFloat((total * 100000) \div max_score)]]]

-----------------------------------------------------------------------------
(* test.py: the evaluation against the MIF reference and its summary       *)

\* the comparison loop over comparison_map
test_eval_report(inferred, reference) ==
    [f \in ScoredFields |-> calculate_veregin_score(Get(inferred, f), Get(reference, f))]

\* the summary: eval_df["Total"] raises KeyError when no row has a Total,
\* and its sum skips the rows that have none
test_summary(report) ==
    LET with_total == {f \in DOMAIN report : "Total" \in DOMAIN report[f]}
        total_points == SumOver(with_total, [f \in with_total |-> report[f]["Total"]])
        max_points == Cardinality(DOMAIN report) * 8
    IN  IF with_total = {} THEN [raised |-> TRUE]
        ELSE [raised |-> FALSE, total_points |-> total_points, max_points |-> max_points,
              performance_pct |-> PyFloat((total_points * 100000) \div max_points)]

-----------------------------------------------------------------------------
(* One run of a script that evaluates and aggregates: test.py and ISO.py   *)
(* on a dataset and its reference files, o.py on a dataset and a JSON      *)
(* reference.                                                              *)

\* the datasets of the evaluation runs
EvalDatasets == {d \in Datasets : len(d) = 1}

EvalTexts == TextsUpTo(1)

MidTexts == {S_Empty, S_MidRow \o <<"\n">>, S_MidRow \o <<"\n">> \o S_MidRow \o <<"\n">>}

\* the JSON references of o.py
GroundTruths ==
    LET values == [geometry_type |-> {PyStr(S_POINT), PyStr(S_point), PyStr(S_GEOMETRY)},
                   attribute_count |-> {PyInt(1), PyInt(3)},
                   total_features |-> {PyInt(1)}]
    IN  UNION {[keys -> UNION {values[k] : k \in keys}] \cap
               {g \in [keys -> UNION {values[k] : k \in keys}] : \A k \in keys : g[k] \in values[k]} :
                  keys \in SUBSET {"geometry_type", "attribute_count", "total_features"}}

InitAggregate ==
    /\ NoPage
    /\ engine \in {"test", "iso", "o"}
    /\ pc = (IF engine = "o" THEN "generated" ELSE "infer")
    /\ df \in EvalDatasets
    /\ method \in (IF engine = "o" THEN {Unset} ELSE Methods)
    /\ content \in (IF engine = "o" THEN {Unset} ELSE EvalTexts)
    /\ mid_text \in (IF engine = "iso" THEN MidTexts ELSE {Unset})
    /\ reference_data \in (IF engine = "o" THEN GroundTruths ELSE {Unset})
    /\ metadata = Unset
    /\ eval_report = Unset
    /\ inferred_val = PyNone
    /\ reference_val = PyNone
    /\ related = PyNone
    /\ inf_norm = Unset
    /\ ref_norm = Unset
    /\ ret = Unset
    /\ scores = NoDict
    /\ ncalls = 0
    /\ probe = NoProbe

\* ISO.py: metadata = get_..._metadata(df); metadata["geographic_extent"] = {...}
IsoInfer ==
    /\ engine = "iso"
    /\ pc = "infer"
    /\ content # NoFile /\ mid_text # NoFile
    /\ IF \/ method = "Rule-Based (Schema)" /\ StrAccessorRaises(df, "WKT_LNG_LAT")
          \/ method = "Heuristic-Based" /\ UniqueRatioRaises(df)
       THEN pc' = "crashed" /\ UNCHANGED metadata
       ELSE /\ pc' = "generated"
            /\ metadata' =
                  Put(CASE method = "Rule-Based (Schema)" -> iso_get_rule_based_metadata(df)
                        [] method = "Statistical Profiling" -> iso_get_statistical_metadata(df)
                        [] method = "Heuristic-Based" -> iso_get_heuristic_metadata(df),
                      "geographic_extent", geographic_extent(df))
    /\ UNCHANGED <<pageVars, df, method, reference_data, eval_report, content, mid_text, scoreVars>>

\* ISO.py: the reference from the MIF and MID files, then
\* field_scores = evaluate_metadata_iso(...); method_score = aggregate_scores(...)
IsoEvaluate ==
    /\ engine = "iso"
    /\ pc = "generated"
    /\ reference_data' = [geometry_type |-> parse_mif(content).geometry_type,
                          bounding_box |-> parse_mif(content).bounding_box,
                          total_features |-> parse_mid(mid_text).total_features,
                          attribute_count |-> PyInt(Cardinality(df.columns))]
    /\ eval_report' = evaluate_metadata_iso(metadata, reference_data')
    /\ ret' = aggregate_scores(eval_report')
    /\ pc' = "done"
    /\ shown' = shown \cup {"metadata", "reference", "evaluation table", "summary",
                            "download of the evaluation"}
    /\ UNCHANGED <<uploadVars, df, method, metadata, content, mid_text, callVars, inf_norm, ref_norm,
                   scores, ncalls, probe>>

\* test.py: reference_data = parse_mif_reference(...), the comparison loop
\* and the summary; an exception is reported and the run goes on
EvaluateAgainstMif ==
    /\ engine = "test"
    /\ pc = "generated"
    /\ content # NoFile
    /\ reference_data' = parse_mif_reference(content)
    /\ eval_report' = test_eval_report(metadata, reference_data')
    /\ ret' = test_summary(eval_report')
    /\ pc' = "done"
    /\ shown' = shown \cup (IF ret'.raised THEN {"evaluation table", "error", "download"}
                              ELSE {"evaluation table", "summary", "download"})
    /\ UNCHANGED <<uploadVars, df, method, metadata, content, mid_text, callVars, inf_norm, ref_norm,
                   scores, ncalls, probe>>

\* o.py: the comparison loop and the leaderboard
CompareToJson ==
    /\ engine = "o"
    /\ pc = "generated"
    /\ metadata' = o_methods(df)
    /\ eval_report' = o_eval_results(df, reference_data)
    /\ ret' = o_leaderboard(eval_report', reference_data)
    /\ pc' = IF ret'.raised THEN "crashed" ELSE "done"
    /\ shown' = shown \cup (IF ret'.raised THEN {"evaluation table"}
                              ELSE {"evaluation table", "summary"})
    /\ UNCHANGED <<uploadVars, df, method, reference_data, content, mid_text, callVars, inf_norm,
                   ref_norm, scores, ncalls, probe>>

NextAggregate ==
    \/ RunRuleBased \/ RunStatistical \/ RunHeuristic \/ AttachShared \/ EvaluateAgainstMif
    \/ IsoInfer \/ IsoEvaluate
    \/ CompareToJson

SpecAggregate == InitAggregate /\ [][NextAggregate]_vars

\* the Total of a score vector: the sum of its four criteria
TotalOf(vector, keys) ==
    SumOver(keys, [k \in keys |-> vector[k]])

(***************************************************************************)
(* C11: total_score is the sum of the scored fields' Totals, max_score is  *)
(* 8 times the number of fields that were scored, normalized_score is      *)
(* total_score / max_score (to 3 decimals), and a method whose every       *)
(* scored field has Total 8 gets the normalized score 1 (100%).            *)
(***************************************************************************)
C11_Aggregation ==
    (pc = "done" /\ ~ret.raised) =>
        CASE engine = "iso" ->
                /\ ret.total_score = SumOver(IsoFields,
                                         [f \in IsoFields |-> TotalOf(eval_report[f], IsoKeys)])
                /\ ret.max_score = 8 * Cardinality(DOMAIN eval_report)
                /\ 2 * Abs(1000 * ret.total_score - ret.normalized_score.n * ret.max_score)
                      <= ret.max_score
                /\ (\A f \in IsoFields : eval_report[f]["total"] = 8)
                      => ret.normalized_score.n = 1000
          [] engine = "test" ->
                /\ ret.total_points = SumOver(ScoredFields,
                                         [f \in ScoredFields |-> TotalOf(eval_report[f], Criteria)])
                /\ ret.max_points = 8 * Cardinality(DOMAIN eval_report)
                /\ ret.performance_pct.n * ret.max_points = 100000 * ret.total_points
          [] engine = "o" ->
                \A m \in OMethods :
                    /\ ret.leaderboard[m].Total =
                          SumOver(DOMAIN eval_report[m],
                              [f \in DOMAIN eval_report[m] |->
                                  TotalOf(eval_report[m][f], Criteria)])
                    /\ ret.max_score = 8 * Cardinality(DOMAIN eval_report[m])
                    /\ (\A f \in DOMAIN eval_report[m] : eval_report[m][f]["Total"] = 8)
                          => ret.leaderboard[m].Accuracy.n = 100000

S_WKT == <<"W", "K", "T">>

-----------------------------------------------------------------------------
(* The inference methods of Evaluation.py *)

\* Series.str.extract(r'^([A-Z]+)', expand=False).iloc[0]
run_rule_based(d) ==
    [geometry_type |-> IF "WKT_LNG_LAT" \in d.columns
                       THEN Extract(d.rows[1]["WKT_LNG_LAT"])
                       ELSE PyStr(S_Unknown),
     attribute_count |-> PyInt(Cardinality(d.columns)),
     total_features |-> PyInt(len(d))]

\* the columns df.describe() covers: the numeric ones, every column when
\* none is numeric
DescribedColumns(d) ==
    LET numeric == {c \in d.columns : Dtype(d, c) # S_object}
    IN  IF numeric = {} THEN d.columns ELSE numeric

\* the number of cells of the column that are not missing
CountOf(d, c) == len(d) - isnull_sum(d, c)

\* df.describe().loc['count'].max(): a float when the columns are numeric
DescribeCountMax(d) ==
    LET counts == {CountOf(d, c) : c \in DescribedColumns(d)}
        most == CHOOSE n \in counts : \A m \in counts : m <= n
    IN  IF \E c \in d.columns : Dtype(d, c) # S_object
        THEN PyFloat(1000 * most) ELSE PyInt(most)

run_statistical(d) ==
    [geometry_type |-> PyStr(IF "LNG" \in d.columns THEN S_POINT ELSE S_Unknown),
     attribute_count |-> PyInt(Cardinality(d.columns)),
     total_features |-> DescribeCountMax(d)]

\* the column names of the dataset, as strings
ColumnNames(d) == {AllColumnName(c) : c \in d.columns}

run_heuristic(d) ==
    [geometry_type |->
        PyStr(IF \E name \in {S_LAT, S_LNG, S_WKT} : name \in ColumnNames(d)
              THEN S_POINT ELSE S_Unknown),
     attribute_count |-> PyInt(Cardinality(d.columns)),
     total_features |-> PyInt(len(d))]

-----------------------------------------------------------------------------
(* The inference engine of comp.py *)

CompMethods == {"Rule-Based", "Statistical", "Heuristic"}

\* df['LNG'] raises KeyError when the dataset has no LNG column
infer_metadata_raises(d, m) == m # "Rule-Based" /\ "LNG" \notin d.columns

RECURSIVE SeqSum(_)
SeqSum(ns) == IF ns = << >> THEN 0 ELSE Head(ns) + SeqSum(Tail(ns))

\* the numbers of the sequence in ascending order
RECURSIVE Sorted(_)
Sorted(ns) ==
    IF ns = << >> THEN << >>
    ELSE LET k == CHOOSE i \in 1..Len(ns) : \A j \in 1..Len(ns) : ns[i] <= ns[j]
         IN  <<ns[k]>> \o Sorted([i \in 1..(Len(ns) - 1) |-> IF i < k THEN ns[i] ELSE ns[i + 1]])

\* round(df[c].mean(), 2), in thousandths; nan when every cell is missing
ColumnMeanRounded(d, c) ==
    LET ns == Numbers(Column(d, c))
    IN  IF ns = << >> THEN NaN
        ELSE PyFloat(10 * RoundHalfEven(SeqSum(ns), 10 * Len(ns)))

\* df[c].quantile(0.1), in thousandths: linear interpolation between the two
\* smallest values
ColumnQuantile10(d, c) ==
    LET ns == Sorted(Numbers(Column(d, c)))
    IN  IF ns = << >> THEN NaN
        ELSE IF Len(ns) = 1 THEN PyFloat(ns[1])
        ELSE PyFloat(ns[1] + ((Len(ns) - 1) * (ns[2] - ns[1])) \div 10)

infer_metadata(d, m) ==
    CASE m = "Rule-Based" ->
            [geom |-> PyStr(IF "LNG" \in d.columns THEN S_POINT ELSE S_UNKNOWN),
             count |-> PyInt(len(d)),
             bbox |-> IF "LNG" \in d.columns THEN ColumnMin(d, "LNG") ELSE PyInt(0)]
      [] m = "Statistical" ->
            [geom |-> PyStr(S_POINT),
             count |-> PyInt(len(d)),
             bbox |-> ColumnMeanRounded(d, "LNG")]
      [] m = "Heuristic" ->
            [geom |-> PyStr(S_VECTOR),
             count |-> PyInt(len(d)),
             bbox |-> ColumnQuantile10(d, "LNG")]

-----------------------------------------------------------------------------
(* One inference run of a script on an uploaded dataset: test.py and       *)
(* ISO.py with the method selected in the sidebar, comp.py with its own    *)
(* method names, Evaluation.py with all three methods.                     *)

EvaluationMethods == {"Rule-Based", "Statistical", "Heuristic"}

InitInfer ==
    /\ NoPage
    /\ pc = "infer"
    /\ engine \in {"test", "iso", "Evaluation", "comp"}
    /\ df \in Datasets
    /\ method \in (CASE engine = "comp" -> CompMethods
                     [] engine = "Evaluation" -> {Unset}
                     [] OTHER -> Methods)
    /\ metadata = Unset
    /\ reference_data = Unset
    /\ eval_report = Unset
    /\ content = Unset
    /\ mid_text = Unset
    /\ inferred_val = PyNone
    /\ reference_val = PyNone
    /\ related = PyNone
    /\ inf_norm = Unset
    /\ ref_norm = Unset
    /\ ret = Unset
    /\ scores = NoDict
    /\ ncalls = 0
    /\ probe = NoProbe

\* Evaluation.py: results = {"Rule-Based": run_rule_based(df), ...}
RunAllMethods ==
    /\ engine = "Evaluation"
    /\ pc = "infer"
    /\ IF StrAccessorRaises(df, "WKT_LNG_LAT")
       THEN pc' = "crashed" /\ UNCHANGED metadata
       ELSE /\ pc' = "generated"
            /\ metadata' = [m \in EvaluationMethods |->
                               CASE m = "Rule-Based" -> run_rule_based(df)
                                 [] m = "Statistical" -> run_statistical(df)
                                 [] m = "Heuristic" -> run_heuristic(df)]
    /\ UNCHANGED <<pageVars, df, method, reference_data, eval_report, content, mid_text, scoreVars>>

\* comp.py: inferred = infer_metadata(df, selected_method)
InferMetadata ==
    /\ engine = "comp"
    /\ pc = "infer"
    /\ IF infer_metadata_raises(df, method)
       THEN pc' = "crashed" /\ UNCHANGED metadata
       ELSE pc' = "generated" /\ metadata' = infer_metadata(df, method)
    /\ UNCHANGED <<pageVars, df, method, reference_data, eval_report, content, mid_text, scoreVars>>

NextInfer ==
    \/ RunRuleBased \/ RunStatistical \/ RunHeuristic \/ AttachShared
    \/ IsoInfer
    \/ RunAllMethods
    \/ InferMetadata

SpecInfer == InitInfer /\ [][NextInfer]_vars

(***************************************************************************)
(* C14: for every dataset and each of the three inference strategies, the  *)
(* total_features of the resulting metadata equals the row count of the    *)
(* dataset, missing values included.                                       *)
(***************************************************************************)
C14_TotalFeaturesIsRowCount ==
    pc = "generated" =>
        CASE engine \in {"test", "iso"} -> metadata["total_features"] = PyInt(len(df))
          [] engine = "comp" -> metadata["count"] = PyInt(len(df))
          [] engine = "Evaluation" ->
                \A m \in EvaluationMethods :
                    /\ IsNumber(metadata[m]["total_features"])
                    /\ Thousandths(metadata[m]["total_features"]) = 1000 * len(df)

\* the leading upper-case runs of the geometry-description values
GeometryTokens ==
    {LeadingUpper(df.rows[i]["WKT_LNG_LAT"].s) :
        i \in {j \in 1..len(df) : /\ df.rows[j]["WKT_LNG_LAT"].kind = "str"
                                  /\ LeadingUpper(df.rows[j]["WKT_LNG_LAT"].s) # << >>}}

\* the geometry value returns the token: as the value or as an element of it
ReturnsToken(geometry, token) ==
    \/ geometry = PyStr(token)
    \/ geometry.kind = "list" /\ \E i \in 1..Len(geometry.items) : geometry.items[i] = PyStr(token)

(***************************************************************************)
(* C15: for every geometry-description value that begins with upper-case   *)
(* letters A-Z the Rule-Based strategy returns exactly that leading run as *)
(* the geometry token, for every row of the dataset, not only the first.   *)
(***************************************************************************)
C15_RuleBasedExtraction ==
    (pc = "generated" /\ "WKT_LNG_LAT" \in df.columns) =>
        \A token \in GeometryTokens :
            CASE engine = "test" ->
                    method = "Rule-Based (Schema)"
                        => ReturnsToken(metadata["geometry_type"], token)
              [] engine = "iso" ->
                    method = "Rule-Based (Schema)"
                        => ReturnsToken(DictGet(metadata["geometry_info"], S_type, PyNone), token)
              [] engine = "Evaluation" ->
                    ReturnsToken(metadata["Rule-Based"]["geometry_type"], token)
              [] engine = "comp" -> TRUE

\* the Unknown / Projected sentinel and the WGS84 descriptor of the CRS sniff
UnknownProjected ==
    PyDict(<<PyEntry(S_name, PyStr(S_UnknownProjected)), PyEntry(S_code, PyStr(S_Undefined))>>)

WGS84 ==
    PyDict(<<PyEntry(S_auth_name, PyStr(S_EPSG)), PyEntry(S_code, PyStr(S_4326)),
             PyEntry(S_name, PyStr(S_WGS84)), PyEntry(S_units, PyStr(S_DecimalDegrees))>>)

(***************************************************************************)
(* C16: each of the three strategies, run on a dataset that lacks the      *)
(* geometry-description column and/or the coordinate columns, completes    *)
(* without raising and puts an Unknown/null value in the affected field.   *)
(* (A geometry-description column that is present holds text.)             *)
(***************************************************************************)
C16_MissingColumnDegrades ==
    (/\ pc \in {"generated", "crashed"}
     /\ df.columns # Columns
     /\ ~StrAccessorRaises(df, "WKT_LNG_LAT")) =>
        /\ pc # "crashed"
        /\ (engine = "test" /\ method = "Rule-Based (Schema)" /\ "WKT_LNG_LAT" \notin df.columns)
              => metadata["geometry_type"] \in {PyStr(S_Unknown), PyNone}
        /\ (engine = "test" /\ ({"LAT", "LNG"} \cap df.columns) # {"LAT", "LNG"})
              => metadata["spatial_reference"] \in {UnknownProjected, PyNone}
        /\ (engine = "comp" /\ "LNG" \notin df.columns)
              => metadata["geom"] \in {PyStr(S_UNKNOWN), PyStr(S_Unknown), PyNone}

\* every value of the column is a number within the bounds (thousandths)
EveryValueWithin(c, lo, hi) ==
    \A i \in 1..len(df) :
        /\ df.rows[i][c].kind \in {"int", "float"}
        /\ df.rows[i][c].n >= lo
        /\ df.rows[i][c].n <= hi

(***************************************************************************)
(* C17: for every dataset and each of the three strategies the             *)
(* spatial_reference of the record is the WGS84 (EPSG:4326) descriptor     *)
(* exactly when both LAT and LNG exist, every LAT lies in [-90,90] and     *)
(* every LNG in [-180,180]; in every other case it is the Unknown /        *)
(* Projected sentinel.                                                     *)
(***************************************************************************)
C17_CrsSniffShared ==
    (pc = "generated" /\ engine = "test") =>
        metadata["spatial_reference"] =
            (IF /\ {"LAT", "LNG"} \subseteq df.columns
                /\ EveryValueWithin("LAT", -90000, 90000)
                /\ EveryValueWithin("LNG", -180000, 180000)
             THEN WGS84 ELSE UnknownProjected)

\* the geometry the Statistical strategy has to report
StatisticalGeometry ==
    PyStr(IF {"LAT", "LNG"} \subseteq df.columns THEN S_POINT ELSE S_Unknown)

(***************************************************************************)
(* C20: the Statistical strategy reports geometry_type POINT exactly when  *)
(* the dataset has both a LAT and a LNG column, and Unknown in every other *)
(* case, also when only one of the two columns is present.                 *)
(***************************************************************************)
C20_StatisticalGeometry ==
    pc = "generated" =>
        CASE engine = "test" ->
                method = "Statistical Profiling"
                    => metadata["geometry_type"] = StatisticalGeometry
          [] engine = "Evaluation" ->
                metadata["Statistical"]["geometry_type"] = StatisticalGeometry
          [] engine = "comp" ->
                method = "Statistical" => metadata["geom"] = StatisticalGeometry
          [] engine = "iso" -> TRUE

S_IdentifierPK == <<"I", "d", "e", "n", "t", "i", "f", "i", "e", "r", " ", "(", "P", "r",
    "i", "m", "a", "r", "y", " ", "K", "e", "y", " ", "c", "a", "n", "d", "i", "d", "a",
    "t", "e", ")">>
S_GeneralAttribute == <<"G", "e", "n", "e", "r", "a", "l", " ", "A", "t", "t", "r", "i",
    "b", "u", "t", "e">>

-----------------------------------------------------------------------------
(* The Heuristic strategy of Metadata.py *)

\* df[c].between(lo, hi).all(): a missing value is not between
metadata_between_all(d, c, lo, hi) ==
    \A i \in 1..len(d) :
        LET cell == d.rows[i][c]
        IN  IsNumber(cell) /\ lo <= Thousandths(cell) /\ Thousandths(cell) <= hi

metadata_infer_crs(d) ==
    IF /\ "LAT" \in d.columns
       /\ "LNG" \in d.columns
       /\ metadata_between_all(d, "LAT", -90000, 90000)
       /\ metadata_between_all(d, "LNG", -180000, 180000)
    THEN PyDict(<<PyEntry(S_auth_name, PyStr(S_EPSG)), PyEntry(S_code, PyStr(S_4326)),
                  PyEntry(S_name, PyStr(S_WGS84)), PyEntry(S_units, PyStr(S_DecimalDegrees)),
                  PyEntry(S_type, PyStr(S_Geographic2D))>>)
    ELSE PyDict(<<PyEntry(S_name, PyStr(S_UnknownProjected)),
                  PyEntry(S_code, PyStr(S_Undefined))>>)

\* the classification Metadata.py gives a column
metadata_classification(d, c) ==
    IF Dtype(d, c) = S_int64 /\ UniqueRatioAbove09(d, c) THEN S_IdentifierPK
    ELSE IF nunique(d, c) < 10 THEN S_Categorical
    ELSE S_GeneralAttribute

metadata_get_heuristic_metadata(d) ==
    LET classification_of == [c \in d.columns |-> PyStr(metadata_classification(d, c))]
    IN  [method |-> PyStr(S_HeuristicBased),
         spatial_reference |-> metadata_infer_crs(d),
         classifications |-> PyDict(DictOverColumns(d, classification_of))]

-----------------------------------------------------------------------------
(* One run of the Heuristic strategy, of ISO.py or of Metadata.py, on a    *)
(* dataset of attribute columns                                            *)

MaxHeuristicRows == 11

\* a column of n cells with u distinct values: 1, 2, ..., u, u, ..., u
HeuristicColumn(kind, n, u) ==
    [i \in 1..n |->
        LET v == IF i < u THEN i ELSE u
        IN  CASE kind = "int" -> PyInt(v)
              [] kind = "float" -> PyFloat(1000 * v + 500)
              [] kind = "str" -> PyStr(NatStr(v))
              [] kind = "gaps" -> IF i = n THEN NaN ELSE PyFloat(1000 * v + 500)]

\* datasets of 0..MaxHeuristicRows rows with an ID column (integers or
\* text), a VALUE column (floats, the last one missing or not), or both
HeuristicDatasets ==
    LET only_id == {[columns |-> {"ID"},
                     rows |-> [i \in 1..n |-> [ID |-> HeuristicColumn(k, n, u)[i]]]] :
                        k \in {"int", "str"}, n \in 0..MaxHeuristicRows, u \in 1..MaxHeuristicRows}
        only_value == {[columns |-> {"VALUE"},
                        rows |-> [i \in 1..n |-> [VALUE |-> HeuristicColumn(k, n, u)[i]]]] :
                        k \in {"float", "gaps"}, n \in 0..MaxHeuristicRows, u \in 1..MaxHeuristicRows}
        both == {[columns |-> {"ID", "VALUE"},
                  rows |-> [i \in 1..n |-> [ID |-> HeuristicColumn("int", n, u)[i],
                                            VALUE |-> HeuristicColumn("float", n, w)[i]]]] :
                        n \in 0..MaxHeuristicRows, u \in 1..MaxHeuristicRows, w \in {1, MaxHeuristicRows}}
    IN  only_id \cup only_value \cup both

InitHeuristic ==
    /\ NoPage
    /\ pc = "infer"
    /\ engine \in {"iso", "Metadata"}
    /\ df \in HeuristicDatasets
    /\ method = "Heuristic-Based"
    /\ metadata = Unset
    /\ reference_data = Unset
    /\ eval_report = Unset
    /\ content = Unset
    /\ mid_text = Unset
    /\ inferred_val = PyNone
    /\ reference_val = PyNone
    /\ related = PyNone
    /\ inf_norm = Unset
    /\ ref_norm = Unset
    /\ ret = Unset
    /\ scores = NoDict
    /\ ncalls = 0
    /\ probe = NoProbe

\* Metadata.py, Heuristic-Based selected: metadata = get_heuristic_metadata(df),
\* then the shared geographic_extent and total_features
MetadataHeuristic ==
    /\ engine = "Metadata"
    /\ pc = "infer"
    /\ method = "Heuristic-Based"
    /\ IF UniqueRatioRaises(df)
       THEN pc' = "crashed" /\ UNCHANGED <<metadata, shown>>
       ELSE /\ pc' = "generated"
            /\ shown' = shown \cup {"metadata", "download"}
            /\ metadata' = Put(Put(metadata_get_heuristic_metadata(df),
                                   "geographic_extent", geographic_extent(df)),
                               "total_features", PyInt(len(df)))
    /\ UNCHANGED <<uploadVars, df, method, reference_data, eval_report, content, mid_text, scoreVars>>

NextHeuristic == IsoInfer \/ MetadataHeuristic

SpecHeuristic == InitHeuristic /\ [][NextHeuristic]_vars

\* the cells of the column
CellsOf(c) == {df.rows[i][c] : i \in 1..len(df)}

\* the role the decision order gives the column
ExpectedRole(c) ==
    LET distinct == Cardinality({cell \in CellsOf(c) : cell.kind # "nan"})
        integer == len(df) > 0 /\ \A cell \in CellsOf(c) : cell.kind = "int"
        float == len(df) > 0 /\ \A cell \in CellsOf(c) : cell.kind \in {"float", "nan"}
    IN  IF integer /\ 10 * distinct > 9 * len(df) THEN S_Identifier
        ELSE IF distinct < 10 THEN S_Categorical
        ELSE IF float THEN S_Continuous
        ELSE S_General

\* the role the record gives the column; the labels of the scripts start
\* with the name of the role
HasRole(c, role) ==
    LET label == DictGet(metadata["classifications"], AllColumnName(c), PyNone)
    IN  label.kind = "str" /\ startswith(label.s, role)

(***************************************************************************)
(* C18: every column receives exactly one role, by the first matching rule *)
(* of: integer-typed and unique-ratio > 0.9 gives Identifier; unique-count *)
(* < 10 gives Categorical; float-typed gives Continuous; otherwise         *)
(* General/Text.                                                           *)
(***************************************************************************)
C18_HeuristicClassification ==
    pc = "generated" => \A c \in df.columns : HasRole(c, ExpectedRole(c))

(***************************************************************************)
(* C19: on a dataset with 0 rows and one or more columns the Heuristic     *)
(* strategy does not raise, and every column gets a classification.        *)
(***************************************************************************)
C19_EmptyDatasetHeuristic ==
    (pc \in {"generated", "crashed"} /\ len(df) = 0 /\ df.columns # {}) =>
        /\ pc = "generated"
        /\ \A c \in df.columns :
              DictGet(metadata["classifications"], AllColumnName(c), PyNone).kind = "str"

S_Detected == <<"D", "e", "t", "e", "c", "t", "e", "d">>

-----------------------------------------------------------------------------
(* Decoding the bytes of an uploaded MIF file: bytes.decode("utf-8") and   *)
(* bytes.decode("latin-1").  A character outside ASCII is written as its   *)
(* code point.                                                             *)

\* the characters of the code points 32..126 (the grave accent, which a
\* string of this language cannot hold, by its code point)
Printable == <<" ", "!", "\"", "#", "$", "%", "&", "'", "(", ")", "*", "+",
               ",", "-", ".", "/", "0", "1", "2", "3", "4", "5", "6", "7",
               "8", "9", ":", ";", "<", "=", ">", "?", "@", "A", "B", "C",
               "D", "E", "F", "G", "H", "I", "J", "K", "L", "M", "N", "O",
               "P", "Q", "R", "S", "T", "U", "V", "W", "X", "Y", "Z", "[",
               "\\", "]", "^", "_", "U+96", "a", "b", "c", "d", "e", "f", "g",
               "h", "i", "j", "k", "l", "m", "n", "o", "p", "q", "r", "s",
               "t", "u", "v", "w", "x", "y", "z", "{", "|", "}", "~">>

\* chr(cp)
Chr(cp) ==
    IF cp \in 32..126 THEN Printable[cp - 31]
    ELSE IF cp = 9 THEN "\t"
    ELSE IF cp = 10 THEN "\n"
    ELSE IF cp = 13 THEN "\r"
    ELSE "U+" \o ToString(cp)

IsContinuation(byte) == byte \in 128..191

\* the number of bytes of the well-formed UTF-8 sequence that starts at
\* bytes[i], 0 when there is none
Utf8Length(bytes, i) ==
    LET b1 == bytes[i]
        has(k) == i + k <= Len(bytes)
        cont(k) == IsContinuation(bytes[i + k])
    IN  IF b1 < 128 THEN 1
        ELSE IF b1 \in 194..223 THEN (IF has(1) /\ cont(1) THEN 2 ELSE 0)
        ELSE IF b1 \in 224..239
        THEN (IF /\ has(2) /\ cont(1) /\ cont(2)
                 /\ (b1 = 224 => bytes[i + 1] >= 160)
                 /\ (b1 = 237 => bytes[i + 1] <= 159)
              THEN 3 ELSE 0)
        ELSE IF b1 \in 240..244
        THEN (IF /\ has(3) /\ cont(1) /\ cont(2) /\ cont(3)
                 /\ (b1 = 240 => bytes[i + 1] >= 144)
                 /\ (b1 = 244 => bytes[i + 1] <= 143)
              THEN 4 ELSE 0)
        ELSE 0

\* the code point of the well-formed sequence of k bytes that starts at bytes[i]
Utf8CodePoint(bytes, i, k) ==
    CASE k = 1 -> bytes[i]
      [] k = 2 -> (bytes[i] - 192) * 64 + (bytes[i + 1] - 128)
      [] k = 3 -> (bytes[i] - 224) * 4096 + (bytes[i + 1] - 128) * 64 + (bytes[i + 2] - 128)
      [] k = 4 -> (bytes[i] - 240) * 262144 + (bytes[i + 1] - 128) * 4096
                     + (bytes[i + 2] - 128) * 64 + (bytes[i + 3] - 128)

\* bytes.decode("utf-8"): UnicodeDecodeError at the first ill-formed sequence
RECURSIVE decode_utf8(_)
decode_utf8(bytes) ==
    IF bytes = << >> THEN [raised |-> FALSE, text |-> << >>]
    ELSE LET k == Utf8Length(bytes, 1)
         IN  IF k = 0 THEN [raised |-> TRUE, text |-> << >>]
             ELSE LET rest == decode_utf8(SubSeq(bytes, k + 1, Len(bytes)))
                  IN  [raised |-> rest.raised,
                       text |-> IF rest.raised THEN << >>
                                ELSE <<Chr(Utf8CodePoint(bytes, 1, k))>> \o rest.text]

\* bytes.decode("latin-1"): every byte is the code point of one character
decode_latin1(bytes) == [i \in 1..Len(bytes) |-> Chr(bytes[i])]

\* the try / except UnicodeDecodeError of parse_mif_reference, without its handler
decode_unguarded(file_bytes) ==
    decode_utf8(file_bytes)

\* the try / except UnicodeDecodeError of parse_mif_reference
decode(file_bytes) ==
    IF decode_utf8(file_bytes).raised
    THEN [raised |-> FALSE, text |-> decode_latin1(file_bytes)]
    ELSE decode_utf8(file_bytes)

-----------------------------------------------------------------------------
(* One call of parse_mif_reference on the bytes of an uploaded file        *)

MaxBytePieces == 3

\* "Point 1 2", "Region 1", a line break, the two bytes of the UTF-8 form
\* of U+00E9, and the Latin-1 byte of U+00E9
BytePieces == {<<80, 111, 105, 110, 116, 32, 49, 32, 50>>,
               <<82, 101, 103, 105, 111, 110, 32, 49>>,
               <<10>>, <<195>>, <<169>>, <<233>>, <<240>>, <<159>>}

RECURSIVE BytesUpTo(_)
BytesUpTo(k) ==
    IF k = 0 THEN {<< >>}
    ELSE BytesUpTo(k - 1) \cup {b \o p : b \in BytesUpTo(k - 1), p \in BytePieces}

InitDecode ==
    /\ pc = "parse"
    /\ engine \in {"test", "evaluation_model"}
    /\ file_content \in BytesUpTo(MaxBytePieces)
    /\ uploaded_files = Unset
    /\ file_index = 0
    /\ summary_data = << >>
    /\ shown = {}
    /\ NoPipeline
    /\ inferred_val = PyNone
    /\ reference_val = PyNone
    /\ related = PyNone
    /\ inf_norm = Unset
    /\ ref_norm = Unset
    /\ ret = Unset
    /\ scores = NoDict
    /\ ncalls = 0
    /\ probe = NoProbe

\* test.py: parse_mif_reference(file_content), from the bytes
ParseMifReferenceBytes ==
    /\ pc = "parse"
    /\ engine = "test"
    /\ IF decode(file_content).raised
       THEN pc' = "crashed" /\ UNCHANGED <<content, reference_data>>
       ELSE /\ pc' = "parsed"
            /\ content' = decode(file_content).text
            /\ reference_data' = parse_mif_reference(content')
    /\ UNCHANGED <<pageVars, df, method, metadata, eval_report, mid_text, scoreVars>>

\* evaluation_model.py: parse_mif_reference(file_content), from the bytes
EvaluationModelParseMifReference ==
    /\ pc = "parse"
    /\ engine = "evaluation_model"
    /\ IF decode(file_content).raised
       THEN pc' = "crashed" /\ UNCHANGED <<content, reference_data>>
       ELSE /\ pc' = "parsed"
            /\ content' = decode(file_content).text
            /\ reference_data' =
                  [geometry_type |-> parse_mif_reference(content').geometry_type,
                   total_features |-> parse_mif_reference(content').total_features,
                   geographic_extent |-> PyStr(S_Detected)]
    /\ UNCHANGED <<pageVars, df, method, metadata, eval_report, mid_text, scoreVars>>

NextDecode == ParseMifReferenceBytes \/ EvaluationModelParseMifReference

SpecDecode == InitDecode /\ [][NextDecode]_vars

(***************************************************************************)
(* C23: for every byte sequence parse_mif_reference raises no encoding     *)
(* error: it decodes the bytes as UTF-8 when they are valid UTF-8 and as   *)
(* Latin-1 otherwise, and returns a reference record with a geometry_type  *)
(* and a total_features.                                                   *)
(***************************************************************************)
C23_MifDecodingNeverRaises ==
    pc # "parse" =>
        /\ pc = "parsed"
        /\ {"geometry_type", "total_features"} \subseteq DOMAIN reference_data
        /\ content = IF decode_utf8(file_content).raised
                     THEN decode_latin1(file_content)
                     ELSE decode_utf8(file_content).text

\* bytes that are not UTF-8 were parsed, and a feature was counted in them
C23_Witness ==
    /\ pc = "parsed"
    /\ decode_utf8(file_content).raised
    /\ reference_data.total_features = PyInt(1)

S_multi == <<"m", "u", "l", "t", "i">>

-----------------------------------------------------------------------------
(* The scoring engine of eva_model.py: ISOVereginEvaluator.score_field *)

\* bool(v)
Truthy(v) ==
    CASE v.kind = "none" -> FALSE
      [] v.kind = "str" -> v.s # << >>
      [] v.kind \in {"list", "dict"} -> v.items # << >>
      [] v.kind \in {"int", "float"} -> v.n # 0
      [] OTHER -> TRUE

eva_score_field(gen_val, gt_val) ==
    LET Completeness == IF Truthy(gen_val) /\ gen_val # PyStr(S_Unknown) THEN 2 ELSE 0
        Correctness ==
            IF gen_val.kind # "none" /\ gt_val.kind # "none"
            THEN IF Lower(Str(gen_val)) = Lower(Str(gt_val)) THEN 2
                 ELSE IF Contains(Lower(Str(gt_val)), Lower(Str(gen_val))) THEN 1
                 ELSE 0
            ELSE 0
        Consistency == IF Correctness > 0 THEN 2 ELSE 0
        Granularity ==
            IF gen_val.kind = "str" /\ Contains(S_multi, Lower(gen_val.s)) THEN 2 ELSE 1
    IN  [Correctness |-> Correctness, Completeness |-> Completeness,
         Consistency |-> Consistency, Granularity |-> Granularity]

-----------------------------------------------------------------------------
(* One scoring call of test.py, ISO.py or eva_model.py on one inferred     *)
(* value                                                                   *)

InitCompleteness ==
    /\ NoPage
    /\ pc = "call"
    /\ engine \in {"test", "iso", "eva_model"}
    /\ inferred_val \in InferredValues
    /\ reference_val \in {PyStr(S_POINT), PyInt(0)}
    /\ related = PyNone
    /\ inf_norm = Unset
    /\ ref_norm = Unset
    /\ ret = Unset
    /\ scores = NoDict
    /\ ncalls = 0
    /\ probe = NoProbe
    /\ NoPipeline

\* eva_model.py: scores = self.score_field(field, gen_val, gt_val)
EvaScoreField ==
    /\ pc = "call"
    /\ engine = "eva_model"
    /\ ret' = eva_score_field(inferred_val, reference_val)
    /\ ncalls' = ncalls + 1
    /\ probe' = Recorded(ret')
    /\ pc' = "done"
    /\ UNCHANGED <<pageVars, callVars, pipeVars, inf_norm, ref_norm, scores>>

NextCompleteness == ScoreField \/ IsoEvaluateField \/ EvaScoreField

SpecCompleteness == InitCompleteness /\ [][NextCompleteness]_vars

\* the Completeness the finished call gave
CompletenessGiven ==
    IF engine = "iso" THEN ret["completeness"] ELSE ret["Completeness"]

(***************************************************************************)
(* C24: Completeness is 2 for every inferred value that is present and is  *)
(* not a not-detected sentinel (None, "Unknown", an empty list, an empty   *)
(* mapping, an empty string), the number 0 and non-empty lists and         *)
(* mappings included, and 0 otherwise; it is never 1.                      *)
(***************************************************************************)
C24_CompletenessRule ==
    pc = "done" => CompletenessGiven = (IF IsSentinel(inferred_val) THEN 0 ELSE 2)

-----------------------------------------------------------------------------
(* One call of ISO.py parse_mif on a MIF text with a Bounds directive      *)

\* the coordinates written in the Bounds directives: 1, 10, -5, -2.5, 0.25
Coordinates == {<<"1">>, <<"1", "0">>, <<"-", "5">>, <<"-", "2", ".", "5">>,
                <<"0", ".", "2", "5">>}

\* Bounds (a, b) (c, d)
BoundsLine(a, b, c, d) ==
    S_Bounds \o <<" ", "(">> \o a \o <<",", " ">> \o b \o <<")", " ", "(">>
             \o c \o <<",", " ">> \o d \o <<")">>

\* a directive with four numbers, one with three, or none; before it a
\* geometry line or nothing
BoundsTexts ==
    LET directives ==
            {BoundsLine(a, b, c, d) : a \in Coordinates, b \in Coordinates,
                                      c \in {<<"1">>, <<"-", "5">>}, d \in {<<"1", "0">>, <<"-", "2", ".", "5">>}}
                \cup {S_Bounds \o <<" ", "(">> \o a \o <<",", " ">> \o b \o <<")", " ", "(", "1", ")">> :
                         a \in Coordinates, b \in Coordinates}
                \cup {S_MifRect}
    IN  directives \cup {S_MifPoint \o <<"\n">> \o t : t \in directives}

InitBounds ==
    /\ NoPage
    /\ pc = "parse"
    /\ engine = "iso"
    /\ content \in BoundsTexts
    /\ mid_text = Unset
    /\ inferred_val = PyNone
    /\ reference_val = PyNone
    /\ related = PyNone
    /\ inf_norm = Unset
    /\ ref_norm = Unset
    /\ ret = Unset
    /\ scores = NoDict
    /\ ncalls = 0
    /\ probe = NoProbe
    /\ df = Unset
    /\ method = Unset
    /\ metadata = Unset
    /\ reference_data = Unset
    /\ eval_report = Unset

NextBounds == ParseMif

SpecBounds == InitBounds /\ [][NextBounds]_vars

\* the words of a directive: what stands between blanks, brackets and commas
RECURSIVE Words(_)
Words(str) ==
    LET separators == {" ", "(", ")", ","}
    IN  IF str = << >> THEN << >>
        ELSE IF Head(str) \in separators THEN Words(Tail(str))
        ELSE LET k == CHOOSE n \in 1..Len(str) :
                          /\ \A j \in 1..n : str[j] \notin separators
                          /\ (n = Len(str) \/ str[n + 1] \in separators)
             IN  <<SubSeq(str, 1, k)>> \o Words(SubSeq(str, k + 1, Len(str)))

\* the number a coordinate denotes, in thousandths, with its sign
CoordinateValue(word) ==
    LET negative == Head(word) = "-"
        digits == IF negative THEN Tail(word) ELSE word
        point == IF \E i \in 1..Len(digits) : digits[i] = "."
                 THEN CHOOSE i \in 1..Len(digits) : digits[i] = "."
                 ELSE Len(digits) + 1
        whole == ParseNat(SubSeq(digits, 1, point - 1))
        fraction == ParseNat(SubSeq(SubSeq(digits, point + 1, Len(digits)) \o <<"0", "0", "0">>, 1, 3))
    IN  (IF negative THEN -1 ELSE 1) * (1000 * whole + fraction)

\* the coordinates of the Bounds directive of the text, << >> when it has none
DeclaredCoordinates ==
    LET lines == splitlines(content)
        declaring == {i \in 1..Len(lines) : startswith(lines[i], S_Bounds)}
    IN  IF declaring = {} THEN << >>
        ELSE Tail(Words(lines[CHOOSE i \in declaring : TRUE]))

(***************************************************************************)
(* C25: when the MIF text has a Bounds directive carrying four numbers,    *)
(* parse_mif returns a bounding box whose min_x, min_y, max_x, max_y are   *)
(* exactly those four numbers in order, signs preserved (negative integers *)
(* and negative decimals included); with no Bounds directive of four       *)
(* numbers the bounding box is null.                                       *)
(***************************************************************************)
C25_BoundsParsing ==
    (pc = "parsed" /\ engine = "iso") =>
        IF Len(DeclaredCoordinates) = 4
        THEN /\ reference_data.bounding_box.kind = "dict"
             /\ \A i \in 1..4 :
                   DictGet(reference_data.bounding_box, BoundsKeys[i], PyNone)
                      = PyFloat(CoordinateValue(DeclaredCoordinates[i]))
        ELSE reference_data.bounding_box = PyNone

\* the inferred bounding box has numeric min_x and max_x with min_x < max_x
ProperBox(box) ==
    /\ box.kind = "dict"
    /\ IsNumber(DictGet(box, S_min_x, PyNone))
    /\ IsNumber(DictGet(box, S_max_x, PyNone))
    /\ Thousandths(DictGet(box, S_min_x, PyNone)) < Thousandths(DictGet(box, S_max_x, PyNone))

(***************************************************************************)
(* C26: when a bounding box is scored, Consistency is 2 only if its        *)
(* min_x < max_x; an inferred bounding box with min_x >= max_x or with     *)
(* null coordinates does not receive Consistency 2.                        *)
(***************************************************************************)
C26_BoundingBoxConsistency ==
    (pc = "done" /\ engine = "iso" /\ eval_report["bounding_box"]["consistency"] = 2)
        => ProperBox(metadata["geographic_extent"])

(***************************************************************************)
(* C27: once an inference strategy has returned the MetadataRecord, no     *)
(* later step of the pipeline (extent computation, scoring, report         *)
(* building) adds, removes or changes any of its fields.                   *)
(***************************************************************************)
C27_RecordImmutable ==
    [][(engine \in {"test", "iso"} /\ pc \in {"attach", "generated"})
          => metadata' = metadata]_vars

S_2DXY == <<"2", "D", " ", "(", "X", "Y", ")">>

-----------------------------------------------------------------------------
(* The Rule-Based strategy of Metadata.py and of evaluation_model.py, and  *)
(* the evaluation of evaluation_model.py                                   *)

\* Metadata.py get_rule_based_metadata: .unique().tolist() keeps the
\* missing value
metadata_get_rule_based_metadata(d) ==
    [method |-> PyStr(S_RuleBased),
     spatial_reference |-> metadata_infer_crs(d),
     geometry_info |->
         PyDict(<<PyEntry(S_type,
                          IF "WKT_LNG_LAT" \in d.columns
                          THEN PyList(Unique([i \in 1..len(d) |->
                                                 Extract(d.rows[i]["WKT_LNG_LAT"])]))
                          ELSE PyStr(S_Unknown)),
                  PyEntry(S_dimensionality, PyStr(S_2DXY))>>),
     attributes |-> PyDict(AttributeEntries(d, ColumnOrder))]

\* evaluation_model.py get_rule_based_metadata and infer_crs: the statements
\* of Metadata.py
evaluation_model_get_rule_based_metadata(d) ==
    metadata_get_rule_based_metadata(d)

\* evaluation_model.py parse_mif_reference, on the decoded text
evaluation_model_parse_mif_reference(text) ==
    [geometry_type |-> parse_mif_reference(text).geometry_type,
     total_features |-> parse_mif_reference(text).total_features,
     geographic_extent |-> PyStr(S_Detected)]

\* evaluation_model.py calculate_veregin_score(inferred_val, reference_val, field_name)
evaluation_model_calculate_veregin_score(inferred, reference) ==
    IF \/ inferred.kind = "none"
       \/ Str(inferred) = S_Unknown
       \/ inferred = PyList(<< >>)
    THEN NewScores
    ELSE LET inorm == normalize(inferred)
             rnorm == normalize(reference)
             four == [k \in Criteria |->
                        CASE k = "Completeness" -> 2
                          [] k = "Correctness" ->
                                IF inorm = rnorm /\ inorm # S_Empty THEN 2
                                ELSE IF Contains(inorm, rnorm) \/ Contains(rnorm, inorm) THEN 1
                                ELSE 0
                          [] k = "Consistency" -> 2
                          [] k = "Granularity" -> GranularityOf(inorm)]
         IN  [k \in Criteria \cup {"Total"} |->
                IF k = "Total"
                THEN four["Correctness"] + four["Completeness"]
                       + four["Consistency"] + four["Granularity"]
                ELSE four[k]]

-----------------------------------------------------------------------------
(* One run with Rule-Based (Schema) selected: test.py and                  *)
(* evaluation_model.py infer and evaluate against a MIF reference, ISO.py  *)
(* and Metadata.py infer.                                                  *)

RuleBasedTexts == {S_Empty, S_MifPoint, S_MifRegion}

InitRuleBased ==
    /\ NoPage
    /\ pc = "infer"
    /\ engine \in {"test", "evaluation_model", "iso", "Metadata"}
    /\ df \in Datasets
    /\ method = "Rule-Based (Schema)"
    /\ content \in (IF engine \in {"test", "evaluation_model"} THEN RuleBasedTexts ELSE {Unset})
    /\ mid_text = Unset
    /\ metadata = Unset
    /\ reference_data = Unset
    /\ eval_report = Unset
    /\ inferred_val = PyNone
    /\ reference_val = PyNone
    /\ related = PyNone
    /\ inf_norm = Unset
    /\ ref_norm = Unset
    /\ ret = Unset
    /\ scores = NoDict
    /\ ncalls = 0
    /\ probe = NoProbe

\* Metadata.py, Rule-Based (Schema) selected: metadata = get_rule_based_metadata(df),
\* then the shared geographic_extent and total_features
MetadataRuleBased ==
    /\ engine = "Metadata"
    /\ pc = "infer"
    /\ method = "Rule-Based (Schema)"
    /\ IF StrAccessorRaises(df, "WKT_LNG_LAT")
       THEN pc' = "crashed" /\ UNCHANGED <<metadata, shown>>
       ELSE /\ pc' = "generated"
            /\ shown' = shown \cup {"metadata", "download"}
            /\ metadata' = Put(Put(metadata_get_rule_based_metadata(df),
                                   "geographic_extent", geographic_extent(df)),
                               "total_features", PyInt(len(df)))
    /\ UNCHANGED <<uploadVars, df, method, reference_data, eval_report, content, mid_text, scoreVars>>

\* evaluation_model.py, Rule-Based (Schema) selected
EvaluationModelRuleBased ==
    /\ engine = "evaluation_model"
    /\ pc = "infer"
    /\ method = "Rule-Based (Schema)"
    /\ IF StrAccessorRaises(df, "WKT_LNG_LAT")
       THEN pc' = "crashed" /\ UNCHANGED <<metadata, shown>>
       ELSE /\ pc' = "generated"
            /\ shown' = shown \cup {"metadata"}
            /\ metadata' = Put(Put(evaluation_model_get_rule_based_metadata(df),
                                   "geographic_extent", geographic_extent(df)),
                               "total_features", PyInt(len(df)))
    /\ UNCHANGED <<uploadVars, df, method, reference_data, eval_report, content, mid_text, scoreVars>>

\* evaluation_model.py: reference_data = parse_mif_reference(...), the
\* comparison loop and the summary; an exception is reported and the run goes on
EvaluationModelEvaluate ==
    /\ engine = "evaluation_model"
    /\ pc = "generated"
    /\ content # NoFile
    /\ reference_data' = evaluation_model_parse_mif_reference(content)
    /\ eval_report' = [f \in ScoredFields |->
                          evaluation_model_calculate_veregin_score(Get(metadata, f),
                                                                   Get(reference_data', f))]
    /\ ret' = test_summary(eval_report')
    /\ pc' = "done"
    /\ shown' = shown \cup (IF ret'.raised THEN {"evaluation table", "error", "download"}
                              ELSE {"evaluation table", "summary", "download"})
    /\ UNCHANGED <<uploadVars, df, method, metadata, content, mid_text, callVars, inf_norm,
                   ref_norm, scores, ncalls, probe>>

NextRuleBased ==
    \/ RunRuleBased \/ AttachShared \/ EvaluateAgainstMif
    \/ EvaluationModelRuleBased \/ EvaluationModelEvaluate
    \/ IsoInfer
    \/ MetadataRuleBased

SpecRuleBased == InitRuleBased /\ [][NextRuleBased]_vars

\* the leading uppercase tokens of the geometry-description column, by row
\* (the empty string where the row has none)
TokenOfRow(i) ==
    LET cell == df.rows[i]["WKT_LNG_LAT"]
    IN  IF cell.kind = "str" THEN LeadingUpper(cell.s) ELSE << >>

(***************************************************************************)
(* C28: in the evaluation pipeline, whenever the Rule-Based strategy       *)
(* extracts at least one geometry token from the dataset, the field        *)
(* geometry_type is scored with Completeness 2 (it is not scored as        *)
(* missing).                                                               *)
(***************************************************************************)
C28_InferredGeometryIsScored ==
    (/\ pc = "done"
     /\ engine \in {"test", "evaluation_model"}
     /\ "WKT_LNG_LAT" \in df.columns
     /\ \E i \in 1..len(df) : TokenOfRow(i) # << >>)
        => eval_report["geometry_type"]["Completeness"] = 2

\* the geometry type list of the record the Rule-Based strategy returned
GeometryTypeList ==
    IF engine = "test" THEN metadata["geometry_type"]
    ELSE DictGet(metadata["geometry_info"], S_type, PyNone)

\* the first row whose token is the string
FirstRowOf(token) ==
    CHOOSE i \in 1..len(df) : TokenOfRow(i) = token /\ \A j \in 1..(i - 1) : TokenOfRow(j) # token

(***************************************************************************)
(* C29: when the geometry-description column is present, the Rule-Based    *)
(* geometry_type is the list of the distinct leading uppercase tokens of   *)
(* the column's values in order of first occurrence, with no null/NaN      *)
(* entry for a row whose value is missing or does not start with an        *)
(* uppercase letter.                                                       *)
(***************************************************************************)
C29_GeometryTokensOnly ==
    (pc \in {"attach", "generated", "done"} /\ "WKT_LNG_LAT" \in df.columns) =>
        LET types == GeometryTypeList.items
        IN  /\ GeometryTypeList.kind = "list"
            /\ \A k \in 1..Len(types) : types[k].kind = "str" /\ types[k].s # << >>
            /\ {types[k].s : k \in 1..Len(types)}
                  = {TokenOfRow(i) : i \in 1..len(df)} \ {<< >>}
            /\ \A k \in 1..Len(types) : \A l \in (k + 1)..Len(types) :
                  /\ types[k] # types[l]
                  /\ FirstRowOf(types[k].s) < FirstRowOf(types[l].s)

(***************************************************************************)
(* C30: for every set of field scores the evaluation produces              *)
(* (evaluate_metadata_iso followed by aggregate_scores in ISO.py, the      *)
(* summary of test.py), 0 <= total_score <= max_score and                  *)
(* 0 <= normalized_score <= 1, and the aggregation never divides by zero.  *)
(***************************************************************************)
C30_AggregateBounds ==
    (pc = "done" /\ engine \in {"iso", "test"}) =>
        /\ 8 * Cardinality(DOMAIN eval_report) > 0
        /\ (engine = "iso") =>
              /\ ~ret.raised
              /\ ret.max_score > 0
              /\ ret.total_score \in 0..ret.max_score
              /\ ret.normalized_score.n \in 0..1000
        /\ (engine = "test" /\ ~ret.raised) =>
              /\ ret.max_points > 0
              /\ ret.total_points \in 0..ret.max_points
              /\ ret.performance_pct.n \in 0..100000

\* ISO.py aggregated field scores whose total is more than a quarter of the
\* maximum and less than the maximum
C30_Witness ==
    /\ pc = "done"
    /\ engine = "iso"
    /\ ~ret.raised
    /\ 4 * ret.total_score > ret.max_score
    /\ ret.total_score < ret.max_score

-----------------------------------------------------------------------------
(* The batch run of comp.py: the loop over the uploaded files              *)

MaxFiles == 2

\* what the uploads hold: a table pd.read_csv loads, or bytes it raises on
\* (an empty file raises EmptyDataError)
BatchDatasets ==
    {d \in EvalDatasets : d.columns \in {{"LNG"}, {"LAT", "LNG"}, {"WKT_LNG_LAT"}}}

BatchContents ==
    {[readable |-> TRUE, df |-> d] : d \in BatchDatasets}
        \cup {[readable |-> FALSE, df |-> [columns |-> {}, rows |-> << >>]]}

\* the uploads of at most k files
RECURSIVE UploadsUpTo(_)
UploadsUpTo(k) ==
    IF k = 0 THEN {<< >>}
    ELSE UploadsUpTo(k - 1)
            \cup {Append(fs, c) : fs \in {x \in UploadsUpTo(k - 1) : Len(x) = k - 1},
                                  c \in BatchContents}

\* truth = {'geom': "POINT", 'count': len(df), 'bbox': ...}
proxy_ground_truth(d) ==
    [geom |-> PyStr(S_POINT),
     count |-> PyInt(len(d)),
     bbox |-> IF "LNG" \in d.columns THEN ColumnMin(d, "LNG") ELSE PyInt(0)]

\* the three field scores of one file
field_scores(inferred, truth) ==
    [f \in {"geom", "count", "bbox"} |-> comp_calculate_veregin_score(inferred[f], truth[f])]

\* the row the loop appends for the file; file.name is its position in the upload
summary_row(name, inferred, truth) ==
    LET scored == field_scores(inferred, truth)
        sum == scored["geom"].total + scored["count"].total + scored["bbox"].total
    IN  [Filename |-> name,
         GeometryScore |-> scored["geom"].total,
         FeatureCountScore |-> scored["count"].total,
         BBoxScore |-> scored["bbox"].total,
         WeightedTotal |-> PyFloat(10 * RoundHalfEven(100 * sum, 3))]

\* an exception in the body of the loop: read_csv, infer_metadata or a scoring call
file_raises(file, m) ==
    \/ ~file.readable
    \/ infer_metadata_raises(file.df, m)
    \/ \E f \in {"geom", "count", "bbox"} :
          field_scores(infer_metadata(file.df, m), proxy_ground_truth(file.df))[f].raised

InitBatch ==
    /\ pc = "batch"
    /\ engine = "comp"
    /\ method \in CompMethods
    /\ uploaded_files \in UploadsUpTo(MaxFiles) \ {<< >>}
    /\ file_index = 0
    /\ summary_data = << >>
    /\ shown = {}
    /\ file_content = Unset
    /\ df = Unset
    /\ metadata = Unset
    /\ reference_data = Unset
    /\ eval_report = Unset
    /\ content = Unset
    /\ mid_text = Unset
    /\ inferred_val = PyNone
    /\ reference_val = PyNone
    /\ related = PyNone
    /\ inf_norm = Unset
    /\ ref_norm = Unset
    /\ ret = Unset
    /\ scores = NoDict
    /\ ncalls = 0
    /\ probe = NoProbe

\* one pass of "for file in uploaded_files": no statement of the body is
\* in a try block, so an exception ends the script run
ProcessFile ==
    /\ pc = "batch"
    /\ engine = "comp"
    /\ file_index < Len(uploaded_files)
    /\ LET file == uploaded_files[file_index + 1]
       IN  IF file_raises(file, method)
           THEN /\ pc' = "crashed"
                /\ UNCHANGED <<df, metadata, reference_data, summary_data, file_index>>
           ELSE /\ pc' = "batch"
                /\ df' = file.df
                /\ reference_data' = proxy_ground_truth(file.df)
                /\ metadata' = infer_metadata(file.df, method)
                /\ summary_data' = Append(summary_data,
                                          summary_row(file_index + 1, metadata', reference_data'))
                /\ file_index' = file_index + 1
    /\ UNCHANGED <<shown, file_content, uploaded_files, method, eval_report, content, mid_text, scoreVars>>

\* after the loop: the metrics row, the table and the chart of results_df
PresentResults ==
    /\ pc = "batch"
    /\ engine = "comp"
    /\ file_index = Len(uploaded_files)
    /\ pc' = "presented"
    /\ shown' = {"metrics", "table", "chart"}
    /\ UNCHANGED <<file_content, uploaded_files, file_index, summary_data, pipeVars, scoreVars>>

NextBatch == ProcessFile \/ PresentResults

SpecBatch == InitBatch /\ [][NextBatch]_vars

(***************************************************************************)
(* C21: in batch mode the files are processed one after another in upload  *)
(* order, and a failure while loading, inferring or scoring one file does  *)
(* not abort the run: every later file is still processed, and each file   *)
(* ends with its own result or its own captured error.                     *)
(***************************************************************************)
C21_BatchIsolation ==
    /\ pc # "crashed"
    /\ \A i \in 1..Len(summary_data) : summary_data[i].Filename = i
    /\ pc = "presented" => Len(summary_data) = Len(uploaded_files)

-----------------------------------------------------------------------------
(* One run of a single-dataset pipeline with or without its reference      *)
(* files: test.py and evaluation_model.py with an optional MIF file,       *)
(* ISO.py with its MIF and MID files.                                      *)

InitReference ==
    /\ NoPage
    /\ pc = "infer"
    /\ engine \in {"test", "evaluation_model", "iso"}
    /\ df \in EvalDatasets
    /\ method \in (IF engine = "evaluation_model" THEN {"Rule-Based (Schema)"} ELSE Methods)
    /\ content \in RuleBasedTexts \cup {NoFile}
    /\ mid_text \in (IF engine = "iso" THEN MidTexts \cup {NoFile} ELSE {Unset})
    /\ metadata = Unset
    /\ reference_data = Unset
    /\ eval_report = Unset
    /\ inferred_val = PyNone
    /\ reference_val = PyNone
    /\ related = PyNone
    /\ inf_norm = Unset
    /\ ref_norm = Unset
    /\ ret = Unset
    /\ scores = NoDict
    /\ ncalls = 0
    /\ probe = NoProbe

\* test.py and evaluation_model.py, ref_file is None: the warning, then the
\* download button
SkipEvaluation ==
    /\ engine \in {"test", "evaluation_model"}
    /\ pc = "generated"
    /\ content = NoFile
    /\ pc' = "done"
    /\ shown' = shown \cup {"warning", "download"}
    /\ UNCHANGED <<uploadVars, pipeVars, scoreVars>>

\* ISO.py, "if csv_file and mif_file and mid_file" is false: the script
\* ends without running the body
IsoNoReference ==
    /\ engine = "iso"
    /\ pc = "infer"
    /\ content = NoFile \/ mid_text = NoFile
    /\ pc' = "done"
    /\ UNCHANGED <<pageVars, pipeVars, scoreVars>>

NextReference ==
    \/ RunRuleBased \/ RunStatistical \/ RunHeuristic \/ AttachShared
    \/ EvaluateAgainstMif \/ SkipEvaluation
    \/ EvaluationModelRuleBased \/ EvaluationModelEvaluate
    \/ IsoInfer \/ IsoEvaluate \/ IsoNoReference

SpecReference == InitReference /\ [][NextReference]_vars

\* the run had no reference to evaluate against, or its evaluation failed
EvaluationFailed ==
    IF content = NoFile \/ mid_text = NoFile THEN TRUE
    ELSE engine # "iso" /\ ret.raised

(***************************************************************************)
(* C22: in the single-dataset pipeline, whenever parsing the reference or  *)
(* scoring against it fails, or no reference is supplied, the failure is   *)
(* reported as a message, no evaluation result is produced for the run,    *)
(* and the generated metadata is still displayed and still offered for     *)
(* download.                                                               *)
(***************************************************************************)
C22_ReferenceFailureIsolated ==
    (pc = "done" /\ EvaluationFailed) =>
        /\ shown \cap {"warning", "error"} # {}
        /\ "summary" \notin shown
        /\ {"metadata", "download"} \subseteq shown

=============================================================================
